---- MODULE Spec2Model ----
(***************************************************************************)
(* Model of the design-pattern examples of design-patterns-typescript.     *)
(*                                                                         *)
(* Decorator example (structural-paterns/decorator): a heap of DataSource  *)
(* objects (FileDataSource leaves and DataSourceDecorator wrappers), the   *)
(* constructors, and the writeData / readData methods of every class.      *)
(*                                                                         *)
(* A JavaScript string is a sequence of UTF-16 code units, modelled as a   *)
(* sequence of naturals.  A JavaScript value is either undefined or a      *)
(* string.  btoa and atob are modelled after the WHATWG definitions        *)
(* (forgiving-base64), bit for bit.                                        *)
(* A call either returns or throws; the client goes on after a throw, as a *)
(* caller that catches the exception does.  The console output of a call   *)
(* is kept with the call.                                                  *)
(*                                                                         *)
(* The singleton, facade, composite, adapter, builder, abstract factory    *)
(* and bridge examples follow the decorator example, each with its         *)
(* variables, its actions and a specification of its own (SpecSingleton,   *)
(* SpecFacade, SpecComposite, SpecAdapter, SpecBuilder, SpecFactory,       *)
(* SpecBridge); their strings are TLA+ strings.                            *)
(***************************************************************************)
EXTENDS Integers, Sequences, FiniteSets

(***************************************************************************)
(* Bounds                                                                  *)
(***************************************************************************)
\* largest number of objects the client constructs, wired freely
MaxObjs == 3
\* largest number of FileDataSource objects among them
MaxFiles == 2
\* largest number of objects of one stack: the leaf and its layers
MaxStack == 4
\* longest text enumerated over Alphabet
MaxLen == 2

(***************************************************************************)
(* JavaScript values                                                       *)
(***************************************************************************)
Undefined == [kind |-> "undefined", chars |-> <<>>]

Str(s) == [kind |-> "string", chars |-> s]

\* the characters "undefined"
UndefinedChars == <<117, 110, 100, 101, 102, 105, 110, 101, 100>>

\* template-literal / DOMString conversion of a value: `${v}`
ToString(v) == IF v.kind = "undefined" THEN UndefinedChars ELSE v.chars

\* "Hello world!"
HelloWorld == <<72, 101, 108, 108, 111, 32, 119, 111, 114, 108, 100, 33>>

\* "not-valid-encoding!"
NotValidEncoding ==
  <<110, 111, 116, 45, 118, 97, 108, 105, 100, 45, 101, 110, 99, 111, 100, 105, 110, 103, 33>>

\* the euro sign U+20AC, one code unit above 0xFF
Euro == <<8364>>

\* the letter 'A'
Alphabet == {65}

BoundedStrings(n) == UNION {[1..k -> Alphabet] : k \in 0..n}

\* texts written through one stack
Texts == BoundedStrings(MaxLen) \cup {HelloWorld, NotValidEncoding, Euro}

\* texts written by the client that wires objects freely: "", "AA",
\* "Hello world!" and the euro sign
ClientTexts == {<<>>, <<65, 65>>, HelloWorld, Euro}

(***************************************************************************)
(* Outcomes of a call: a normal return or a thrown exception.              *)
(***************************************************************************)
Return(v) == [status |-> "return", value |-> v, error |-> "none"]

Throw(e) == [status |-> "throw", value |-> Undefined, error |-> e]

(***************************************************************************)
(* String primitives                                                       *)
(***************************************************************************)
\* data.split("").reverse().join("")
Reverse(s) == [i \in 1..Len(s) |-> s[Len(s) + 1 - i]]

\* the base64 alphabet: value -> code unit
B64Char(i) ==
  IF i < 26 THEN 65 + i
  ELSE IF i < 52 THEN 97 + (i - 26)
  ELSE IF i < 62 THEN 48 + (i - 52)
  ELSE IF i = 62 THEN 43 ELSE 47

\* code unit -> value, -1 for a code unit outside the base64 alphabet
B64Index(c) ==
  IF c >= 65 /\ c <= 90 THEN c - 65
  ELSE IF c >= 97 /\ c <= 122 THEN c - 97 + 26
  ELSE IF c >= 48 /\ c <= 57 THEN c - 48 + 52
  ELSE IF c = 43 THEN 62
  ELSE IF c = 47 THEN 63 ELSE -1

RECURSIVE EncodeBytes(_)
EncodeBytes(s) ==
  IF Len(s) = 0 THEN <<>>
  ELSE IF Len(s) = 1 THEN
    <<B64Char(s[1] \div 4), B64Char((s[1] % 4) * 16), 61, 61>>
  ELSE IF Len(s) = 2 THEN
    <<B64Char(s[1] \div 4), B64Char((s[1] % 4) * 16 + s[2] \div 16),
      B64Char((s[2] % 16) * 4), 61>>
  ELSE
    <<B64Char(s[1] \div 4), B64Char((s[1] % 4) * 16 + s[2] \div 16),
      B64Char((s[2] % 16) * 4 + s[3] \div 64), B64Char(s[3] % 64)>>
    \o EncodeBytes(SubSeq(s, 4, Len(s)))

\* btoa(data): throws InvalidCharacterError on a code unit above 0xFF
btoa(s) ==
  IF \E i \in 1..Len(s) : s[i] > 255
  THEN Throw("InvalidCharacterError")
  ELSE Return(Str(EncodeBytes(s)))

IsAsciiWhitespace(c) == c \in {9, 10, 12, 13, 32}

StripWhitespace(s) == SelectSeq(s, LAMBDA c : ~IsAsciiWhitespace(c))

\* remove one or two trailing '=' when the length is a multiple of four
StripPadding(s) ==
  IF Len(s) % 4 = 0 /\ Len(s) > 0 /\ s[Len(s)] = 61
  THEN IF s[Len(s) - 1] = 61 THEN SubSeq(s, 1, Len(s) - 2)
       ELSE SubSeq(s, 1, Len(s) - 1)
  ELSE s

RECURSIVE DecodeChars(_)
DecodeChars(s) ==
  IF Len(s) < 2 THEN <<>>
  ELSE IF Len(s) = 2 THEN
    <<B64Index(s[1]) * 4 + B64Index(s[2]) \div 16>>
  ELSE IF Len(s) = 3 THEN
    <<B64Index(s[1]) * 4 + B64Index(s[2]) \div 16,
      (B64Index(s[2]) % 16) * 16 + B64Index(s[3]) \div 4>>
  ELSE
    <<B64Index(s[1]) * 4 + B64Index(s[2]) \div 16,
      (B64Index(s[2]) % 16) * 16 + B64Index(s[3]) \div 4,
      (B64Index(s[3]) % 4) * 64 + B64Index(s[4])>>
    \o DecodeChars(SubSeq(s, 5, Len(s)))

\* atob(data): forgiving-base64 decode, InvalidCharacterError on failure
atob(s) ==
  LET d == StripPadding(StripWhitespace(s)) IN
  IF Len(d) % 4 = 1 \/ (\E i \in 1..Len(d) : B64Index(d[i]) = -1)
  THEN Throw("InvalidCharacterError")
  ELSE Return(Str(DecodeChars(d)))

(***************************************************************************)
(* State                                                                   *)
(*   objs      the heap: objs[i] is the i-th object constructed; a         *)
(*             FileDataSource has fileName and data, a decorator has       *)
(*             source (the index of the wrapped object)                    *)
(*   lastWrite the most recent writeData call: receiver, argument,         *)
(*             outcome, console output                                     *)
(*   lastRead  the most recent readData call made after lastWrite:         *)
(*             receiver, outcome, console output                           *)
(***************************************************************************)
VARIABLES objs, lastWrite, lastRead

(***************************************************************************)
(* The other examples keep their state in variables of their own; each     *)
(* example is a program of its own, and the steps of one leave the state   *)
(* of the others alone.                                                    *)
(*                                                                         *)
(* Singleton (creational-patterns/singleton):                              *)
(*   instance   the static field Database.instance: 0 while unassigned,    *)
(*              else the Database object it refers to                      *)
(*   created    the number of Database objects constructed so far; the     *)
(*              k-th object constructed is object k                        *)
(*   returned   the results of the client's getInstance() calls, in order  *)
(*   console    the lines printed by the singleton client                  *)
(* Facade (structural-paterns/facade):                                     *)
(*   uploads    the client's CloudProviderFacade.uploadFile calls, in      *)
(*              order: argument, calls made on the service, lines printed, *)
(*              result                                                     *)
(* Composite (structural-paterns/composite.ts):                            *)
(*   blocks     the Block objects: blocks[b] is the children array of the  *)
(*              b-th Block constructed                                     *)
(*   lastRender the most recent render() call made after the last change   *)
(*              of the structure                                           *)
(* Adapter (structural-paterns/adapter.ts):                                *)
(*   libs       the library and adapter objects constructed                *)
(*   lastBooks  the most recent getBooks() call                            *)
(* Builder (creational-patterns/builder.ts):                               *)
(*   builders   the CarBuilder and MotorcycleBuilder objects constructed   *)
(*   products   the Car and Motorcycle objects constructed                 *)
(*   lastCall   the most recent call on a builder or on the Director       *)
(* Abstract factory (creational-patterns/abstract-factory):                *)
(*   shop       the factories, orders and payments constructed             *)
(*   lastPayment the most recent completePayment call                      *)
(* Bridge (structural-paterns/bridge):                                     *)
(*   uis        the Backend and UI objects constructed                     *)
(*   lastShow   the most recent render() call on a UI                      *)
(***************************************************************************)
VARIABLES instance, created, returned, console

VARIABLES uploads

VARIABLES blocks, lastRender

VARIABLES libs, lastBooks

VARIABLES builders, products, lastCall

VARIABLES shop, lastPayment

VARIABLES uis, lastShow

vars == <<objs, lastWrite, lastRead, instance, created, returned, console,
          uploads, blocks, lastRender, libs, lastBooks, builders, products,
          lastCall, shop, lastPayment, uis, lastShow>>

\* the variables of the examples other than the named one
notDecorator == <<instance, created, returned, console, uploads, blocks,
                  lastRender, libs, lastBooks, builders, products, lastCall,
                  shop, lastPayment, uis, lastShow>>

notSingleton == <<objs, lastWrite, lastRead, uploads, blocks, lastRender,
                  libs, lastBooks, builders, products, lastCall, shop,
                  lastPayment, uis, lastShow>>

notFacade == <<objs, lastWrite, lastRead, instance, created, returned,
               console, blocks, lastRender, libs, lastBooks, builders,
               products, lastCall, shop, lastPayment, uis, lastShow>>

notComposite == <<objs, lastWrite, lastRead, instance, created, returned,
                  console, uploads, libs, lastBooks, builders, products,
                  lastCall, shop, lastPayment, uis, lastShow>>

notAdapter == <<objs, lastWrite, lastRead, instance, created, returned,
                console, uploads, blocks, lastRender, builders, products,
                lastCall, shop, lastPayment, uis, lastShow>>

notBuilder == <<objs, lastWrite, lastRead, instance, created, returned,
                console, uploads, blocks, lastRender, libs, lastBooks, shop,
                lastPayment, uis, lastShow>>

notFactory == <<objs, lastWrite, lastRead, instance, created, returned,
                console, uploads, blocks, lastRender, libs, lastBooks,
                builders, products, lastCall, uis, lastShow>>

notBridge == <<objs, lastWrite, lastRead, instance, created, returned,
               console, uploads, blocks, lastRender, libs, lastBooks,
               builders, products, lastCall, shop, lastPayment>>

FileNames == {"file.txt"}

DecoratorClasses == {"DataSourceDecorator", "EncryptionDecorator", "ReverseDecorator"}

NoCall == [target |-> 0, arg |-> <<>>, status |-> "none", value |-> Undefined,
           error |-> "none", log |-> <<>>]

\* one console.log line
LogLine(who, what, fileName, data) ==
  [who |-> who, what |-> what, fileName |-> fileName, data |-> data]

(***************************************************************************)
(* Constructors                                                            *)
(***************************************************************************)
\* new FileDataSource(fileName): data is left unassigned
FileDataSource_new(fileName) ==
  [class |-> "FileDataSource", fileName |-> fileName, data |-> Undefined, source |-> 0]

\* a constructor that does not assign this.source
DataSourceDecorator_new_NoSource(class, source) ==
  [class |-> class, fileName |-> "", data |-> Undefined, source |-> 0]

\* new DataSourceDecorator(source), inherited by both subclasses
DataSourceDecorator_new(class, source) ==
  [class |-> class, fileName |-> "", data |-> Undefined, source |-> source]

(***************************************************************************)
(* writeData: the result is [status, error, objs, log], objs the heap      *)
(* after the call.                                                         *)
(***************************************************************************)
RECURSIVE writeData(_, _, _)

\* FileDataSource.writeData that keeps a value already stored
FileDataSource_writeData_KeepFirst(os, o, data) ==
  [status |-> "return", error |-> "none",
   objs |-> IF os[o].data = Undefined THEN [os EXCEPT ![o].data = Str(data)] ELSE os,
   log |-> <<LogLine("FileDataSource", "Writing to file", os[o].fileName, data)>>]

\* FileDataSource.writeData on a data field shared by all instances (static)
FileDataSource_writeData_Static(os, o, data) ==
  [status |-> "return", error |-> "none",
   objs |-> [i \in DOMAIN os |->
               IF os[i].class = "FileDataSource"
               THEN [os[i] EXCEPT !.data = Str(data)] ELSE os[i]],
   log |-> <<LogLine("FileDataSource", "Writing to file", os[o].fileName, data)>>]

\* FileDataSource.writeData that assigns this.fileName as well
FileDataSource_writeData_Renames(os, o, data) ==
  [status |-> "return", error |-> "none",
   objs |-> [os EXCEPT ![o].data = Str(data), ![o].fileName = ""],
   log |-> <<LogLine("FileDataSource", "Writing to file", os[o].fileName, data)>>]

\* FileDataSource.writeData that stores `data || undefined`
FileDataSource_writeData_EmptyClears(os, o, data) ==
  [status |-> "return", error |-> "none",
   objs |-> [os EXCEPT ![o].data = IF data = <<>> THEN Undefined ELSE Str(data)],
   log |-> <<LogLine("FileDataSource", "Writing to file", os[o].fileName, data)>>]

FileDataSource_writeData(os, o, data) ==
  [status |-> "return", error |-> "none",
   objs |-> [os EXCEPT ![o].data = Str(data)],
   log |-> <<LogLine("FileDataSource", "Writing to file", os[o].fileName, data)>>]

DataSourceDecorator_writeData(os, o, data) ==
  writeData(os, os[o].source, data)

\* EncryptionDecorator.writeData that hands data, not base64Data, to super
EncryptionDecorator_writeData_WritesPlain(os, o, data) ==
  LET base64Data == btoa(data) IN
  IF base64Data.status = "throw"
  THEN [status |-> "throw", error |-> base64Data.error, objs |-> os, log |-> <<>>]
  ELSE LET super == DataSourceDecorator_writeData(os, o, data) IN
       [super EXCEPT !.log =
          <<LogLine("EncryptionDecorator", "Encrypted data", "", base64Data.value.chars)>>
          \o super.log]

\* EncryptionDecorator.writeData that logs after super.writeData returned
EncryptionDecorator_writeData_LogsAfter(os, o, data) ==
  LET base64Data == btoa(data) IN
  IF base64Data.status = "throw"
  THEN [status |-> "throw", error |-> base64Data.error, objs |-> os, log |-> <<>>]
  ELSE LET super == DataSourceDecorator_writeData(os, o, base64Data.value.chars) IN
       [super EXCEPT !.log = super.log \o
          <<LogLine("EncryptionDecorator", "Encrypted data", "", base64Data.value.chars)>>]

\* EncryptionDecorator.writeData that empties the store before it encodes
EncryptionDecorator_writeData_ClearsFirst(os, o, data) ==
  LET cleared == DataSourceDecorator_writeData(os, o, <<>>)
      base64Data == btoa(data) IN
  IF base64Data.status = "throw"
  THEN [status |-> "throw", error |-> base64Data.error, objs |-> cleared.objs,
        log |-> cleared.log]
  ELSE LET super == DataSourceDecorator_writeData(cleared.objs, o, base64Data.value.chars) IN
       [super EXCEPT !.log =
          <<LogLine("EncryptionDecorator", "Encrypted data", "", base64Data.value.chars)>>
          \o super.log]

EncryptionDecorator_writeData(os, o, data) ==
  LET base64Data == btoa(data) IN
  IF base64Data.status = "throw"
  THEN [status |-> "throw", error |-> base64Data.error, objs |-> os, log |-> <<>>]
  ELSE LET super == DataSourceDecorator_writeData(os, o, base64Data.value.chars) IN
       [super EXCEPT !.log =
          <<LogLine("EncryptionDecorator", "Encrypted data", "", base64Data.value.chars)>>
          \o super.log]

\* ReverseDecorator.writeData that hands data, not compressedData, to super
ReverseDecorator_writeData_NoReverse(os, o, data) ==
  LET compressedData == Reverse(data)
      super == DataSourceDecorator_writeData(os, o, data) IN
  [super EXCEPT !.log =
     <<LogLine("ReverseDecorator", "Reversed data", "", compressedData)>> \o super.log]

ReverseDecorator_writeData(os, o, data) ==
  LET compressedData == Reverse(data)
      super == DataSourceDecorator_writeData(os, o, compressedData) IN
  [super EXCEPT !.log =
     <<LogLine("ReverseDecorator", "Reversed data", "", compressedData)>> \o super.log]

\* dynamic dispatch on the receiver's class
writeData(os, o, data) ==
  CASE os[o].class = "FileDataSource" -> FileDataSource_writeData(os, o, data)
    [] os[o].class = "DataSourceDecorator" -> DataSourceDecorator_writeData(os, o, data)
    [] os[o].class = "EncryptionDecorator" -> EncryptionDecorator_writeData(os, o, data)
    [] os[o].class = "ReverseDecorator" -> ReverseDecorator_writeData(os, o, data)

(***************************************************************************)
(* readData: the result is [status, value, error, log]; no method assigns  *)
(* a field.                                                                *)
(***************************************************************************)
RECURSIVE readData(_, _)

FileDataSource_readData(os, o) ==
  [status |-> "return", value |-> os[o].data, error |-> "none",
   log |-> <<LogLine("FileDataSource", "Reading from file", os[o].fileName,
                     ToString(os[o].data))>>]

\* DataSourceDecorator.readData that calls the source and drops its result
DataSourceDecorator_readData_NoReturn(os, o) ==
  LET inner == readData(os, os[o].source) IN
  IF inner.status = "throw" THEN inner ELSE [inner EXCEPT !.value = Undefined]

DataSourceDecorator_readData(os, o) ==
  readData(os, os[o].source)

\* EncryptionDecorator.readData that returns base64Data without decoding
EncryptionDecorator_readData_NoDecode(os, o) ==
  LET base64Data == DataSourceDecorator_readData(os, o) IN
  IF base64Data.status = "throw" THEN base64Data
  ELSE [status |-> "return", value |-> Str(ToString(base64Data.value)), error |-> "none",
        log |-> base64Data.log \o
          <<LogLine("EncryptionDecorator", "Decrypted data", "", ToString(base64Data.value))>>]

\* EncryptionDecorator.readData that returns the text as stored where atob
\* rejects it
EncryptionDecorator_readData_Lenient(os, o) ==
  LET base64Data == DataSourceDecorator_readData(os, o) IN
  IF base64Data.status = "throw" THEN base64Data
  ELSE LET data == atob(ToString(base64Data.value))
           text == IF data.status = "throw" THEN ToString(base64Data.value)
                   ELSE data.value.chars IN
       [status |-> "return", value |-> Str(text), error |-> "none",
        log |-> base64Data.log \o
          <<LogLine("EncryptionDecorator", "Decrypted data", "", text)>>]

EncryptionDecorator_readData(os, o) ==
  LET base64Data == DataSourceDecorator_readData(os, o) IN
  IF base64Data.status = "throw" THEN base64Data
  ELSE LET data == atob(ToString(base64Data.value)) IN
       IF data.status = "throw"
       THEN [status |-> "throw", value |-> Undefined, error |-> data.error,
             log |-> base64Data.log]
       ELSE [status |-> "return", value |-> data.value, error |-> "none",
             log |-> base64Data.log \o
               <<LogLine("EncryptionDecorator", "Decrypted data", "", data.value.chars)>>]

\* ReverseDecorator.readData that returns compressedData without reversing
ReverseDecorator_readData_NoUnreverse(os, o) ==
  LET compressedData == DataSourceDecorator_readData(os, o) IN
  IF compressedData.status = "throw" THEN compressedData
  ELSE IF compressedData.value.kind = "undefined"
  THEN [status |-> "throw", value |-> Undefined, error |-> "TypeError",
        log |-> compressedData.log]
  ELSE [status |-> "return", value |-> compressedData.value, error |-> "none",
        log |-> compressedData.log \o
          <<LogLine("ReverseDecorator", "Unreversed data", "", compressedData.value.chars)>>]

\* undefined.split("") is a TypeError
ReverseDecorator_readData(os, o) ==
  LET compressedData == DataSourceDecorator_readData(os, o) IN
  IF compressedData.status = "throw" THEN compressedData
  ELSE IF compressedData.value.kind = "undefined"
  THEN [status |-> "throw", value |-> Undefined, error |-> "TypeError",
        log |-> compressedData.log]
  ELSE LET data == Reverse(compressedData.value.chars) IN
       [status |-> "return", value |-> Str(data), error |-> "none",
        log |-> compressedData.log \o
          <<LogLine("ReverseDecorator", "Unreversed data", "", data)>>]

readData(os, o) ==
  CASE os[o].class = "FileDataSource" -> FileDataSource_readData(os, o)
    [] os[o].class = "DataSourceDecorator" -> DataSourceDecorator_readData(os, o)
    [] os[o].class = "EncryptionDecorator" -> EncryptionDecorator_readData(os, o)
    [] os[o].class = "ReverseDecorator" -> ReverseDecorator_readData(os, o)

(***************************************************************************)
(* The client: constructs objects, wrapping any object constructed so far, *)
(* and calls the two methods on any of them, as the statements at the end  *)
(* of the example do.                                                      *)
(***************************************************************************)
\* no render() call made
NoRender == [root |-> 0, status |-> "none", lines |-> <<>>]

\* no getBooks() call made
NoBooks == [target |-> 0, status |-> "none", books |-> <<>>]

\* no call made on a builder or on the Director
NoBuilderCall == [builder |-> 0, method |-> "none", seats |-> 0, engine |-> "",
                  status |-> "none", error |-> "none", returned |-> 0]

\* no completePayment() call made
NoPayment ==
  [payment |-> 0, order |-> 0, status |-> "none", returned |-> FALSE, line |-> ""]

\* no render() call made on a UI
NoShow == [ui |-> 0, source |-> "none", getData |-> <<>>, lines |-> <<>>]

Init ==
  /\ objs = <<>>
  /\ lastWrite = NoCall
  /\ lastRead = NoCall
  \* private static instance: Database;  (declared, never initialised)
  /\ instance = 0
  /\ created = 0
  /\ returned = <<>>
  /\ console = <<>>
  /\ uploads = <<>>
  /\ blocks = <<>>
  /\ lastRender = NoRender
  /\ libs = <<>>
  /\ lastBooks = NoBooks
  /\ builders = <<>>
  /\ products = <<>>
  /\ lastCall = NoBuilderCall
  /\ shop = <<>>
  /\ lastPayment = NoPayment
  /\ uis = <<>>
  /\ lastShow = NoShow

NumFiles == Cardinality({i \in 1..Len(objs) : objs[i].class = "FileDataSource"})

NewFileDataSource ==
  /\ Len(objs) < MaxObjs
  /\ NumFiles < MaxFiles
  /\ \E fileName \in FileNames : objs' = Append(objs, FileDataSource_new(fileName))
  /\ UNCHANGED <<lastWrite, lastRead, notDecorator>>

NewDecorator ==
  /\ Len(objs) < MaxObjs
  /\ \E class \in DecoratorClasses, source \in 1..Len(objs) :
       objs' = Append(objs, DataSourceDecorator_new(class, source))
  /\ UNCHANGED <<lastWrite, lastRead, notDecorator>>

\* o.writeData(data)
Write(o, data) ==
  LET r == writeData(objs, o, data) IN
  /\ objs' = r.objs
  /\ lastWrite' = [target |-> o, arg |-> data, status |-> r.status,
                   value |-> Undefined, error |-> r.error, log |-> r.log]
  /\ lastRead' = NoCall
  /\ UNCHANGED notDecorator

WriteData == \E o \in 1..Len(objs), data \in ClientTexts : Write(o, data)

ReadData ==
  \E o \in 1..Len(objs) :
    LET r == readData(objs, o) IN
    /\ lastRead' = [target |-> o, arg |-> <<>>, status |-> r.status,
                    value |-> r.value, error |-> r.error, log |-> r.log]
    /\ UNCHANGED <<objs, lastWrite, notDecorator>>

Next == NewFileDataSource \/ NewDecorator \/ WriteData \/ ReadData

Spec == Init /\ [][Next]_vars

(***************************************************************************)
(* The client of the README examples: one FileDataSource, then layers each *)
(* wrapping the object constructed just before; the two methods are called *)
(* on any object of the stack, writeData with any of Texts.                *)
(***************************************************************************)
StackNewFile ==
  /\ Len(objs) = 0
  /\ \E fileName \in FileNames : objs' = Append(objs, FileDataSource_new(fileName))
  /\ UNCHANGED <<lastWrite, lastRead, notDecorator>>

StackWrap ==
  /\ Len(objs) >= 1
  /\ Len(objs) < MaxStack
  /\ \E class \in DecoratorClasses :
       objs' = Append(objs, DataSourceDecorator_new(class, Len(objs)))
  /\ UNCHANGED <<lastWrite, lastRead, notDecorator>>

StackWriteData == \E o \in 1..Len(objs), data \in Texts : Write(o, data)

NextStack == StackNewFile \/ StackWrap \/ StackWriteData \/ ReadData

SpecStack == Init /\ [][NextStack]_vars

TypeOK ==
  /\ \A i \in 1..Len(objs) :
       /\ objs[i].class \in DecoratorClasses \cup {"FileDataSource"}
       /\ objs[i].class = "FileDataSource" <=> objs[i].source = 0
       /\ objs[i].source < i
  /\ lastWrite.target \in 0..Len(objs)
  /\ lastRead.target \in 0..Len(objs)

(***************************************************************************)
(* Vocabulary of the properties                                            *)
(***************************************************************************)
IsFile(o) == objs[o].class = "FileDataSource"

IsDecorator(o) == objs[o].class \in DecoratorClasses

\* the FileDataSource at the end of o's chain of source references
RECURSIVE Leaf(_)
Leaf(o) == IF IsFile(o) THEN o ELSE Leaf(objs[o].source)

\* the classes of the layers from o (outermost) inwards, the leaf excluded
RECURSIVE Layers(_)
Layers(o) == IF IsFile(o) THEN <<>> ELSE <<objs[o].class>> \o Layers(objs[o].source)

\* no decorator wraps o
Outermost(o) == \A i \in 1..Len(objs) : objs[i].source # o

\* a readData call was made after the last writeData call, on its receiver
ReadAfterWrite ==
  /\ lastRead.target # 0
  /\ lastRead.target = lastWrite.target

ReadReturned(s) == lastRead.status = "return" /\ lastRead.value = Str(s)

\* "SGVsbG8gd29ybGQh"
HelloWorldEncrypted ==
  <<83, 71, 86, 115, 98, 71, 56, 103, 100, 50, 57, 121, 98, 71, 81, 104>>

\* "!dlrow olleH"
HelloWorldReversed == <<33, 100, 108, 114, 111, 119, 32, 111, 108, 108, 101, 72>>

\* "IWRscm93IG9sbGVI"
HelloWorldReversedEncrypted ==
  <<73, 87, 82, 115, 99, 109, 57, 51, 73, 71, 57, 115, 98, 71, 86, 73>>

(***************************************************************************)
(* C1: through any stack of layers, readData() right after writeData(v)    *)
(* on the same component returns v, for every text v: the write returns    *)
(* and the read returns v.                                                 *)
(***************************************************************************)
C1_RoundTrip ==
  /\ lastWrite.target # 0 => lastWrite.status = "return"
  /\ ReadAfterWrite => ReadReturned(lastWrite.arg)

(***************************************************************************)
(* C2: readData() on a FileDataSource that was never written fails with    *)
(* NotInitialized; it returns no value.                                    *)
(***************************************************************************)
C2_FreshReadFails ==
  (/\ lastRead.target # 0
   /\ IsFile(lastRead.target)
   /\ objs[lastRead.target].data = Undefined)
  => (lastRead.status = "throw" /\ lastRead.error = "NotInitialized")

(***************************************************************************)
(* EncryptionDecorator.readData on the value its inner component returns   *)
(***************************************************************************)
ReadByEncryption ==
  /\ lastRead.target # 0
  /\ objs[lastRead.target].class = "EncryptionDecorator"

\* what the inner component of the receiver of lastRead returns
InnerRead == readData(objs, objs[lastRead.target].source)

DecodeError == lastRead.status = "throw" /\ lastRead.error = "InvalidCharacterError"

\* s is the output of EncryptionDecorator.writeData's encoding for some text
ProducedByEncryption(s) ==
  /\ atob(s).status = "return"
  /\ btoa(atob(s).value.chars) = Return(Str(s))

Base64Alphabet == {B64Char(i) : i \in 0..63}

\* s is well formed for the decoder: ASCII whitespace apart, and up to two
\* trailing '=' apart when the length is a multiple of four, the length is
\* not 1 modulo 4 and every character is of the base64 alphabet
WellFormedBase64(s) ==
  LET t == SelectSeq(s, LAMBDA c : c \notin {9, 10, 12, 13, 32})
      n == Len(t)
      pad == IF n % 4 = 0 /\ n > 0 /\ t[n] = 61
             THEN (IF t[n - 1] = 61 THEN 2 ELSE 1) ELSE 0
  IN /\ (n - pad) % 4 # 1
     /\ \A i \in 1..(n - pad) : t[i] \in Base64Alphabet

(***************************************************************************)
(* C3 (as claimed): EncryptionDecorator.readData() fails with a            *)
(* DecodeError whenever the value its inner component holds was not        *)
(* produced by EncryptionDecorator.writeData.                              *)
(***************************************************************************)
C3_FailsUnlessProduced ==
  (/\ ReadByEncryption
   /\ InnerRead.status = "return"
   /\ ~ProducedByEncryption(ToString(InnerRead.value)))
  => DecodeError

(***************************************************************************)
(* C3 (amended): EncryptionDecorator.readData() fails with a DecodeError   *)
(* exactly when the value its inner component returns is not well-formed   *)
(* base64, as "not-valid-encoding!" and an undefined value are; it returns *)
(* the decoded value otherwise, whoever wrote the value.                   *)
(***************************************************************************)
C3_FailsIffMalformed ==
  (ReadByEncryption /\ InnerRead.status = "return")
  => /\ DecodeError <=> ~WellFormedBase64(ToString(InnerRead.value))
     /\ lastRead.status = "return" <=> WellFormedBase64(ToString(InnerRead.value))
     /\ InnerRead.value \in {Str(NotValidEncoding), Undefined} => DecodeError

\* the raw text "not-valid-encoding!" sits in the leaf and is read through
\* an EncryptionDecorator
C3_Witness ==
  /\ ReadByEncryption
  /\ InnerRead.status = "return"
  /\ InnerRead.value = Str(NotValidEncoding)
  /\ DecodeError

(***************************************************************************)
(* C4: through a ReverseDecorator around a leaf store, writeData(v) never  *)
(* fails and leaves the reversed sequence in the leaf, and readData() then *)
(* returns exactly v, for every character sequence v.                      *)
(***************************************************************************)
ReverseAroundLeaf(o) ==
  /\ o # 0
  /\ objs[o].class = "ReverseDecorator"
  /\ IsFile(objs[o].source)

C4_ReverseSelfInverse ==
  /\ ReverseAroundLeaf(lastWrite.target) =>
       LET v == lastWrite.arg
           held == objs[objs[lastWrite.target].source].data IN
       /\ lastWrite.status = "return"
       /\ held.kind = "string"
       /\ Len(held.chars) = Len(v)
       /\ \A i \in 1..Len(v) : held.chars[i] = v[Len(v) + 1 - i]
  /\ (ReverseAroundLeaf(lastRead.target) /\ ReadAfterWrite) => ReadReturned(lastWrite.arg)

C4_Witness ==
  /\ ReverseAroundLeaf(lastRead.target)
  /\ ReadAfterWrite
  /\ lastWrite.arg = HelloWorld
  /\ objs[objs[lastRead.target].source].data = Str(HelloWorldReversed)
  /\ ReadReturned(HelloWorld)

(***************************************************************************)
(* C5: for ReverseDecorator(EncryptionDecorator(ReverseDecorator(          *)
(* FileDataSource))), writeData("Hello world!") followed by readData() on  *)
(* the outermost component returns exactly "Hello world!".                 *)
(***************************************************************************)
ReverseEncryptionReverse(o) ==
  /\ o # 0
  /\ Layers(o) = <<"ReverseDecorator", "EncryptionDecorator", "ReverseDecorator">>

C5_HelloWorldThroughThree ==
  (/\ ReverseEncryptionReverse(lastRead.target)
   /\ ReadAfterWrite
   /\ lastWrite.arg = HelloWorld)
  => ReadReturned(HelloWorld)

C5_Witness ==
  /\ ReverseEncryptionReverse(lastRead.target)
  /\ ReadAfterWrite
  /\ lastWrite.arg = HelloWorld
  /\ lastWrite.status = "return"
  /\ ReadReturned(HelloWorld)

(***************************************************************************)
(* C6: a FileDataSource returns the most recently written value: after     *)
(* writeData(v) on it, whatever was written before, it holds v and         *)
(* readData() returns v.                                                   *)
(***************************************************************************)
C6_LastWriteWins ==
  (lastWrite.target # 0 /\ IsFile(lastWrite.target))
  => /\ lastWrite.status = "return"
     /\ objs[lastWrite.target].data = Str(lastWrite.arg)
     /\ ReadAfterWrite => ReadReturned(lastWrite.arg)

C6_Witness ==
  /\ ReadAfterWrite
  /\ IsFile(lastRead.target)
  /\ lastWrite.arg = HelloWorld
  /\ ReadReturned(HelloWorld)

(***************************************************************************)
(* The transforms of the layers                                            *)
(***************************************************************************)
\* what a layer of the class does to the text on the way in
LayerForward(class, s) ==
  CASE class = "EncryptionDecorator" -> EncodeBytes(s)
    [] class = "ReverseDecorator" -> Reverse(s)
    [] class = "DataSourceDecorator" -> s

\* what a layer of the class does to the text on the way out
LayerInverse(class, s) ==
  CASE class = "EncryptionDecorator" -> atob(s).value.chars
    [] class = "ReverseDecorator" -> Reverse(s)
    [] class = "DataSourceDecorator" -> s

\* fn(...f2(f1(s))) for the layers L1 (outermost) .. Ln (innermost)
RECURSIVE Forward(_, _)
Forward(layers, s) ==
  IF layers = <<>> THEN s
  ELSE Forward(Tail(layers), LayerForward(Head(layers), s))

\* the inverses applied from the innermost layer to the outermost
RECURSIVE Backward(_, _)
Backward(layers, s) ==
  IF layers = <<>> THEN s
  ELSE LayerInverse(Head(layers), Backward(Tail(layers), s))

(***************************************************************************)
(* C7: a writeData(v) that returns leaves fn(...f2(f1(v))) in the leaf,    *)
(* f1 the forward transform of the outermost layer; a readData() that      *)
(* returns has applied the inverses from the innermost layer outwards.     *)
(* "Hello world!" is held as "SGVsbG8gd29ybGQh" under EncryptionDecorator, *)
(* as "!dlrow olleH" under ReverseDecorator and as "IWRscm93IG9sbGVI"      *)
(* under ReverseDecorator(EncryptionDecorator(leaf)).                      *)
(***************************************************************************)
C7_CompositionOrder ==
  /\ (lastWrite.target # 0 /\ lastWrite.status = "return") =>
       LET held == objs[Leaf(lastWrite.target)].data
           layers == Layers(lastWrite.target) IN
       /\ held = Str(Forward(layers, lastWrite.arg))
       /\ lastWrite.arg = HelloWorld =>
            /\ layers = <<"EncryptionDecorator">> => held = Str(HelloWorldEncrypted)
            /\ layers = <<"ReverseDecorator">> => held = Str(HelloWorldReversed)
            /\ layers = <<"ReverseDecorator", "EncryptionDecorator">> =>
                 held = Str(HelloWorldReversedEncrypted)
  /\ (/\ lastRead.target # 0
      /\ lastRead.status = "return"
      /\ objs[Leaf(lastRead.target)].data.kind = "string") =>
       lastRead.value =
         Str(Backward(Layers(lastRead.target), objs[Leaf(lastRead.target)].data.chars))

C7_Witness ==
  /\ ReadAfterWrite
  /\ Layers(lastWrite.target) = <<"ReverseDecorator", "EncryptionDecorator">>
  /\ lastWrite.arg = HelloWorld
  /\ objs[Leaf(lastWrite.target)].data = Str(HelloWorldReversedEncrypted)
  /\ ReadReturned(HelloWorld)

(***************************************************************************)
(* C8: a readData() through a decorator surfaces the failure of its inner  *)
(* component unchanged: NotInitialized when the leaf of the stack was      *)
(* never written, and otherwise whatever the inner component throws.       *)
(***************************************************************************)
C8_FailureTransparency ==
  (lastRead.target # 0 /\ IsDecorator(lastRead.target)) =>
    /\ objs[Leaf(lastRead.target)].data = Undefined =>
         (lastRead.status = "throw" /\ lastRead.error = "NotInitialized")
    /\ InnerRead.status = "throw" =>
         (lastRead.status = "throw" /\ lastRead.error = InnerRead.error)

(***************************************************************************)
(* C9: a plain DataSourceDecorator d around a component c behaves as c:    *)
(* a writeData(v) on d right after writeData(v) on c leaves every store as *)
(* it is and has the same outcome and output, and a readData() on one      *)
(* right after a readData() on the other has the same outcome and output.  *)
(***************************************************************************)
SameOutcome(a, b) ==
  /\ a.status = b.status
  /\ a.value = b.value
  /\ a.error = b.error
  /\ a.log = b.log

PlainDecoratorOf(d, c) ==
  /\ d \in 1..Len(objs)
  /\ objs[d].class = "DataSourceDecorator"
  /\ objs[d].source = c

C9_Step ==
  \A d \in 1..Len(objs), c \in 1..Len(objs) :
    PlainDecoratorOf(d, c) =>
      /\ (/\ lastWrite.target = c
          /\ lastWrite'.target = d
          /\ lastWrite'.arg = lastWrite.arg)
         => (objs' = objs /\ SameOutcome(lastWrite', lastWrite))
      /\ (/\ lastWrite.target = d
          /\ lastWrite'.target = c
          /\ lastWrite'.arg = lastWrite.arg)
         => (objs' = objs /\ SameOutcome(lastWrite', lastWrite))
      /\ (lastRead.target = c /\ lastRead'.target = d) => SameOutcome(lastRead', lastRead)
      /\ (lastRead.target = d /\ lastRead'.target = c) => SameOutcome(lastRead', lastRead)

C9_PassThrough == [][C9_Step]_vars

\* "Hello world!" was written and read back through a plain decorator
C9_Witness ==
  /\ ReadAfterWrite
  /\ PlainDecoratorOf(lastRead.target, objs[lastRead.target].source)
  /\ lastWrite.arg = HelloWorld
  /\ ReadReturned(HelloWorld)

(***************************************************************************)
(* C10: every FileDataSource is the leaf of at most one wrapper chain: at  *)
(* most one outermost component reaches it.                                *)
(***************************************************************************)
C10_ExclusiveOwnership ==
  \A f \in 1..Len(objs) :
    IsFile(f) =>
      Cardinality({o \in 1..Len(objs) : Outermost(o) /\ Leaf(o) = f}) <= 1

(***************************************************************************)
(* C11 Store isolation.                                                    *)
(***************************************************************************)
\* the step is a writeData call (a stuttering step passes for one that
\* changed nothing)
WriteStep ==
  /\ Len(objs') = Len(objs)
  /\ lastWrite'.target # 0
  /\ lastRead' = NoCall

\* the FileDataSource at the end of o's chain in heap os
RECURSIVE LeafIn(_, _)
LeafIn(os, o) ==
  IF os[o].class = "FileDataSource" THEN o ELSE LeafIn(os, os[o].source)

C11_Step ==
  WriteStep =>
    LET f == Leaf(lastWrite'.target) IN
    \A o \in 1..Len(objs) :
      Leaf(o) # f =>
        /\ objs'[Leaf(o)] = objs[Leaf(o)]
        /\ LeafIn(objs', o) = Leaf(o)
        /\ SameOutcome(readData(objs', o), readData(objs, o))

\* C11: when two stacks end in two distinct FileDataSource instances, a
\* writeData through one leaves the other stack's leaf as it was, and a
\* readData through the other stack has the outcome it would have had
\* without that write, wherever the write falls among the other calls.
C11_StoreIsolation == [][C11_Step]_vars

\* two stacks on two stores holding different texts, the last write made
\* through one and the read after it through the other
C11_Witness ==
  /\ Len(objs) = 3
  /\ IsFile(1) /\ IsFile(2) /\ IsDecorator(3)
  /\ objs[3].source = 1
  /\ lastWrite.target = 3 /\ lastWrite.status = "return"
  /\ objs[1].data # Undefined /\ objs[2].data # Undefined
  /\ objs[1].data # objs[2].data
  /\ lastRead.target = 2 /\ lastRead.value = objs[2].data

(***************************************************************************)
(* C12 Chain shape.                                                        *)
(***************************************************************************)
\* every decorator holds one inner component, constructed before it
OneInner ==
  \A i \in 1..Len(objs) :
    /\ IsDecorator(i) => objs[i].source \in 1..(i - 1)
    /\ IsFile(i) => objs[i].source = 0

\* the number of source references followed from o to its FileDataSource
RECURSIVE Depth(_)
Depth(o) == IF IsFile(o) THEN 0 ELSE 1 + Depth(objs[o].source)

ChainShape ==
  /\ OneInner
  /\ \A i \in 1..Len(objs) :
       /\ Leaf(i) \in 1..Len(objs)
       /\ IsFile(Leaf(i))
       /\ Depth(i) < Len(objs)
       /\ Depth(i) = Len(Layers(i))

\* no step changes the class or the inner reference of an existing object
SourceFixed ==
  /\ Len(objs') >= Len(objs)
  /\ \A i \in 1..Len(objs) :
       /\ objs'[i].source = objs[i].source
       /\ objs'[i].class = objs[i].class

\* C12: following source from any decorator reaches exactly one
\* FileDataSource after finitely many steps, the chain has no cycle, each
\* decorator has exactly one inner component, and neither writeData nor
\* readData (nor a construction) changes an existing decorator's source.
C12_ChainShape == [](ChainShape) /\ [][SourceFixed]_vars

\* a decorator over a decorator over a store, written and read through
C12_Witness ==
  /\ Len(objs) = 3
  /\ Layers(3) = <<"ReverseDecorator", "EncryptionDecorator">>
  /\ Leaf(3) = 1
  /\ lastWrite.target = 3 /\ lastWrite.status = "return"
  /\ lastRead.target = 3 /\ lastRead.status = "return"

(***************************************************************************)
(* C13 Wrappers are stateless, reads are pure.                             *)
(***************************************************************************)
\* the step is a readData call (a stuttering step passes for a repeated one)
ReadStep ==
  /\ Len(objs') = Len(objs)
  /\ lastRead'.target # 0
  /\ lastWrite' = lastWrite

C13_Step ==
  /\ WriteStep =>
       \A i \in 1..Len(objs) :
         /\ objs'[i].class = objs[i].class
         /\ objs'[i].fileName = objs[i].fileName
         /\ objs'[i].source = objs[i].source
         /\ i # Leaf(lastWrite'.target) => objs'[i].data = objs[i].data
  /\ ReadStep =>
       /\ objs' = objs
       /\ lastRead.target = lastRead'.target => SameOutcome(lastRead', lastRead)
       /\ SameOutcome(readData(objs', lastRead'.target), lastRead')

\* C13: writeData changes nothing but the data field of the one leaf its
\* receiver's chain ends in (every fileName and every layer's source stay);
\* readData changes no field at all; and a readData following a readData on
\* the same receiver with no writeData in between has the same outcome.
C13_StatelessWrappers == [][C13_Step]_vars

\* a store under two layers, written through the layers
\* and then read through them
C13_Witness ==
  /\ Len(objs) = 3
  /\ IsDecorator(2) /\ IsDecorator(3) /\ Leaf(3) = 1 /\ objs[3].source = 2
  /\ lastWrite.target = 3 /\ lastWrite.arg = HelloWorld
  /\ objs[1].data # Undefined
  /\ objs[1].fileName = "file.txt"
  /\ lastRead.target = 3

(***************************************************************************)
(* C14 Leaf lifecycle.                                                     *)
(***************************************************************************)
Uninitialized(os, f) == os[f].data = Undefined

HasValue(os, f) == os[f].data.kind = "string"

C14_Step ==
  \* a store is constructed uninitialized
  /\ \A f \in (Len(objs) + 1)..Len(objs') :
       objs'[f].class = "FileDataSource" => Uninitialized(objs', f)
  /\ \A f \in 1..Len(objs) :
       IsFile(f) =>
         /\ Uninitialized(objs, f) \/ HasValue(objs, f)
         \* no way back
         /\ HasValue(objs, f) => HasValue(objs', f)
         \* only a writeData that returns, through a chain ending in f, moves it
         /\ Uninitialized(objs, f) /\ HasValue(objs', f) =>
              /\ WriteStep
              /\ lastWrite'.status = "return"
              /\ Leaf(lastWrite'.target) = f
         \* and the first such call does
         /\ (WriteStep /\ lastWrite'.status = "return" /\ Leaf(lastWrite'.target) = f)
              => HasValue(objs', f)
         /\ ReadStep => objs'[f] = objs[f]

\* C14: a FileDataSource starts uninitialized, has a value from the first
\* writeData that reaches it and returns, never becomes uninitialized again,
\* and no readData moves it from one state to the other.
C14_LeafLifecycle == [][C14_Step]_vars

\* a store that holds the empty text, written through a layer, next to a
\* store still uninitialized, after a read
C14_Witness ==
  /\ Len(objs) = 3
  /\ IsFile(1) /\ IsFile(2) /\ objs[3].source = 1
  /\ objs[1].data = Str(<<>>)
  /\ objs[2].data = Undefined
  /\ lastWrite.target = 3
  /\ lastRead.target = 2

(***************************************************************************)
(* C15 Diagnostic event order.                                             *)
(***************************************************************************)
\* the classes that print, outermost first: DataSourceDecorator prints nothing
Printing(o) == SelectSeq(Layers(o), LAMBDA c : c # "DataSourceDecorator")

Who(log) == [i \in 1..Len(log) |-> log[i].who]

IsPrefix(s, t) == Len(s) <= Len(t) /\ s = SubSeq(t, 1, Len(s))

WriteOrder(o) == Printing(o) \o <<"FileDataSource">>

ReadOrder(o) == <<"FileDataSource">> \o Reverse(Printing(o))

\* the six lines of the README run, in order
HelloWorldOutput ==
  << LogLine("ReverseDecorator", "Reversed data", "", HelloWorldReversed),
     LogLine("EncryptionDecorator", "Encrypted data", "", HelloWorldReversedEncrypted),
     LogLine("FileDataSource", "Writing to file", "file.txt", HelloWorldReversedEncrypted),
     LogLine("FileDataSource", "Reading from file", "file.txt", HelloWorldReversedEncrypted),
     LogLine("EncryptionDecorator", "Decrypted data", "", HelloWorldReversed),
     LogLine("ReverseDecorator", "Unreversed data", "", HelloWorld) >>

\* C15: a writeData prints each layer's line before the lines of the layer's
\* inner component and the leaf's "Writing to file" last; a readData prints
\* the leaf's "Reading from file" first and each layer's line after those of
\* its inner component (a failing call prints a prefix of that order); for
\* ReverseDecorator(EncryptionDecorator(FileDataSource)) and "Hello world!"
\* the lines are Reversed, Encrypted, Writing, Reading, Decrypted, Unreversed.
C15_EventOrder ==
  /\ lastWrite.target # 0 =>
       /\ IsPrefix(Who(lastWrite.log), WriteOrder(lastWrite.target))
       /\ lastWrite.status = "return" =>
            Who(lastWrite.log) = WriteOrder(lastWrite.target)
  /\ lastRead.target # 0 =>
       /\ IsPrefix(Who(lastRead.log), ReadOrder(lastRead.target))
       /\ lastRead.status = "return" =>
            Who(lastRead.log) = ReadOrder(lastRead.target)
  /\ ( /\ ReadAfterWrite
       /\ Layers(lastWrite.target) = <<"ReverseDecorator", "EncryptionDecorator">>
       /\ lastWrite.arg = HelloWorld )
       => lastWrite.log \o lastRead.log = HelloWorldOutput

\* the README run: "Hello world!" written and read through
\* ReverseDecorator(EncryptionDecorator(FileDataSource))
C15_Witness ==
  /\ ReadAfterWrite
  /\ Layers(lastWrite.target) = <<"ReverseDecorator", "EncryptionDecorator">>
  /\ lastWrite.arg = HelloWorld
  /\ Len(lastWrite.log) = 3 /\ Len(lastRead.log) = 3

(***************************************************************************)
(* C27 Failed writes are atomic.                                           *)
(***************************************************************************)
\* the step is a writeData call that threw
FailedWriteStep == WriteStep /\ lastWrite'.status = "throw"

\* the layers of o's chain outside its outermost EncryptionDecorator
RECURSIVE OutsideEncryption(_)
OutsideEncryption(o) ==
  IF IsFile(o) \/ objs[o].class = "EncryptionDecorator" THEN {}
  ELSE {objs[o].class} \cup OutsideEncryption(objs[o].source)

C27_Step ==
  FailedWriteStep =>
    LET o == lastWrite'.target IN
    \* it is the encoding step that failed
    /\ lastWrite'.error = "InvalidCharacterError"
    /\ "EncryptionDecorator" \in {Layers(o)[k] : k \in 1..Len(Layers(o))}
    /\ \E i \in 1..Len(lastWrite'.arg) : lastWrite'.arg[i] > 255
    \* nothing inside the failing layer was called
    /\ \A k \in 1..Len(lastWrite'.log) :
         /\ lastWrite'.log[k].who \in OutsideEncryption(o)
         /\ lastWrite'.log[k].what # "Writing to file"
    \* every store holds what it held
    /\ objs' = objs
    /\ SameOutcome(readData(objs', o), readData(objs, o))
    \* the value of the write before, made through the same stack, is read
    /\ (lastWrite.target = o /\ lastWrite.status = "return") =>
         LET r == readData(objs', o) IN
         r.status = "return" /\ r.value = Str(lastWrite.arg)

\* C27: when writeData(v) through a stack fails in an EncryptionDecorator's
\* encoding step (v has a character btoa cannot encode), no writeData of a
\* component inside that layer is called and every store holds exactly what
\* it held before the call; a readData through the same stack after it
\* returns the value written through that stack before.
C27_FailedWriteAtomic == [][C27_Step]_vars

\* "Hello world!" was written through Reverse(Encryption(file)), then the
\* write of the euro sign through it failed, then readData() returned
\* "Hello world!"
C27_Witness ==
  /\ ReadAfterWrite
  /\ Layers(lastWrite.target) = <<"ReverseDecorator", "EncryptionDecorator">>
  /\ lastWrite.status = "throw"
  /\ lastWrite.arg = Euro
  /\ Len(lastWrite.log) = 1
  /\ ReadReturned(HelloWorld)


(***************************************************************************)
(* C28 Shared leaf, mismatched chains.                                     *)
(***************************************************************************)
\* w and r are a ReverseDecorator and an EncryptionDecorator, one each,
\* constructed over the same FileDataSource
Mismatched(w, r) ==
  /\ {objs[w].class, objs[r].class} = {"ReverseDecorator", "EncryptionDecorator"}
  /\ objs[w].source = objs[r].source
  /\ IsFile(objs[w].source)

\* the last writeData call returned, was made on w and wrote a non-empty v
LastWriter(w) ==
  /\ lastWrite.target = w
  /\ lastWrite.status = "return"
  /\ lastWrite.arg # <<>>

MaxCalls == 3

MaxLines == 4

Sqls == {"SELECT * FROM users", ""}

\* Database.getInstance() that constructs on every call
Database_getInstance_AlwaysNew(inst, n) ==
  [instance |-> n + 1, created |-> n + 1, result |-> n + 1]

\* Database.getInstance() that returns the new object without storing it
Database_getInstance_NotStored(inst, n) ==
  IF inst = 0
  THEN [instance |-> inst, created |-> n + 1, result |-> n + 1]
  ELSE [instance |-> inst, created |-> n, result |-> inst]

\* Database.getInstance() with Database.instance = inst and n objects
\* constructed so far: an object reference is truthy, undefined is not
Database_getInstance(inst, n) ==
  IF inst = 0
  THEN [instance |-> n + 1, created |-> n + 1, result |-> n + 1]
  ELSE [instance |-> inst, created |-> n, result |-> inst]

\* what database.query(sql) prints
Database_query(sql) == "Querying database: " \o sql

\* what the client prints for `database === database2`
SameInstance(database, database2) ==
  IF database = database2
  THEN "The same instance of Database was returned. The Singleton pattern works!"
  ELSE "A new instance of Database was returned. The Singleton pattern failed."

GetInstance ==
  /\ Len(returned) < MaxCalls
  /\ LET r == Database_getInstance(instance, created) IN
     /\ instance' = r.instance
     /\ created' = r.created
     /\ returned' = Append(returned, r.result)
  /\ UNCHANGED <<console, notSingleton>>

Query ==
  /\ Len(console) < MaxLines
  /\ \E i \in 1..Len(returned), sql \in Sqls :
       console' = Append(console, Database_query(sql))
  /\ UNCHANGED <<instance, created, returned, notSingleton>>

Compare ==
  /\ Len(console) < MaxLines
  /\ \E i \in 1..Len(returned), j \in 1..Len(returned) :
       /\ i < j
       /\ console' = Append(console, SameInstance(returned[i], returned[j]))
  /\ UNCHANGED <<instance, created, returned, notSingleton>>

NextSingleton == GetInstance \/ Query \/ Compare

SpecSingleton == Init /\ [][NextSingleton]_vars

(***************************************************************************)
(* C16 Singleton uniqueness.                                               *)
(***************************************************************************)
\* C16: whatever getInstance() calls were made, at most one Database was
\* ever constructed and every call returned that one object: any two
\* results are the same reference, and the client's comparison never
\* reports a new instance.
C16_Uniqueness ==
  /\ created <= 1
  /\ \A i \in 1..Len(returned) :
       /\ returned[i] \in 1..created
       /\ returned[i] = instance
       /\ \A j \in 1..Len(returned) : returned[i] = returned[j]
  /\ \A k \in 1..Len(console) : console[k] # SameInstance(1, 2)

\* three getInstance() calls made and two of the results compared
C16_Witness ==
  /\ Len(returned) >= 3
  /\ created = 1
  /\ \E k \in 1..Len(console) : console[k] = SameInstance(1, 1)

(***************************************************************************)
(* C17 Singleton lazy initialisation.                                      *)
(***************************************************************************)
C17_Step ==
  \* nothing exists before the first call
  /\ Len(returned) = 0 => instance = 0 /\ created = 0
  \* the first call constructs and stores
  /\ (Len(returned) = 0 /\ Len(returned') = 1) =>
       /\ created' = 1
       /\ instance' = 1
       /\ returned'[1] = instance'
  \* a later call returns what is stored and constructs nothing
  /\ (Len(returned) >= 1 /\ Len(returned') = Len(returned) + 1) =>
       /\ created' = created
       /\ returned'[Len(returned')] = instance
  \* what is stored stays
  /\ instance # 0 => instance' = instance
  \* query() (and the comparison) touch neither
  /\ console' # console =>
       /\ instance' = instance
       /\ created' = created
       /\ returned' = returned

\* C17: there is no Database before the first getInstance() call; the first
\* call constructs one and stores it; every later call returns the stored
\* object and constructs none; the stored object is never cleared or
\* replaced, and query() does not touch it.
C17_LazyInit == [][C17_Step]_vars

\* a second getInstance() made after a query on the first result
C17_Witness ==
  /\ Len(returned) = 2
  /\ instance = 1
  /\ console = <<Database_query("SELECT * FROM users")>>

(***************************************************************************)
(* Facade example: CloudProviderService, CloudProviderFacade, the client.  *)
(* A service method is its result and the lines it prints; console.log     *)
(* with two arguments prints them with a space between.                    *)
(***************************************************************************)
\* the uploadFile calls of one client run
MaxUploads == 3

Files == {"file.txt", "a", ""}

\* Math.random() > 0.5 ? true : false -- either, on every call
CloudProviderService_isLoggedIn == BOOLEAN

CloudProviderService_logIn == [lines |-> <<"Logging in...">>]

CloudProviderService_convertFile(file) ==
  [result |-> file \o ".converted",
   lines |-> <<"Converting file..." \o " " \o file>>]

CloudProviderService_uploadFile(file) ==
  [lines |-> <<"Uploading file..." \o " " \o file>>]

CloudProviderService_getFileLink(file) ==
  [result |-> "https://example.com/" \o file, lines |-> <<>>]

Call(method, arg) == [method |-> method, arg |-> arg]

\* CloudProviderFacade.uploadFile that hands file, not convertedFile, on
CloudProviderFacade_uploadFile_Unconverted(file, loggedIn) ==
  LET logIn == IF ~loggedIn THEN CloudProviderService_logIn.lines ELSE <<>>
      convert == CloudProviderService_convertFile(file)
      upload == CloudProviderService_uploadFile(file)
      link == CloudProviderService_getFileLink(file) IN
  [file |-> file, loggedIn |-> loggedIn,
   calls |-> <<Call("isLoggedIn", "")>>
             \o (IF ~loggedIn THEN <<Call("logIn", "")>> ELSE <<>>)
             \o <<Call("convertFile", file), Call("uploadFile", file),
                  Call("getFileLink", file)>>,
   lines |-> logIn \o convert.lines \o upload.lines \o link.lines,
   result |-> link.result]

\* CloudProviderFacade.uploadFile that converts first and logs in afterwards
CloudProviderFacade_uploadFile_LogsInLate(file, loggedIn) ==
  LET logIn == IF ~loggedIn THEN CloudProviderService_logIn.lines ELSE <<>>
      convert == CloudProviderService_convertFile(file)
      convertedFile == convert.result
      upload == CloudProviderService_uploadFile(convertedFile)
      link == CloudProviderService_getFileLink(convertedFile) IN
  [file |-> file, loggedIn |-> loggedIn,
   calls |-> <<Call("isLoggedIn", ""), Call("convertFile", file)>>
             \o (IF ~loggedIn THEN <<Call("logIn", "")>> ELSE <<>>)
             \o <<Call("uploadFile", convertedFile),
                  Call("getFileLink", convertedFile)>>,
   lines |-> convert.lines \o logIn \o upload.lines \o link.lines,
   result |-> link.result]

\* CloudProviderFacade.uploadFile(file), isLoggedIn() having returned loggedIn
CloudProviderFacade_uploadFile(file, loggedIn) ==
  LET logIn == IF ~loggedIn THEN CloudProviderService_logIn.lines ELSE <<>>
      convert == CloudProviderService_convertFile(file)
      convertedFile == convert.result
      upload == CloudProviderService_uploadFile(convertedFile)
      link == CloudProviderService_getFileLink(convertedFile) IN
  [file |-> file, loggedIn |-> loggedIn,
   calls |-> <<Call("isLoggedIn", "")>>
             \o (IF ~loggedIn THEN <<Call("logIn", "")>> ELSE <<>>)
             \o <<Call("convertFile", file), Call("uploadFile", convertedFile),
                  Call("getFileLink", convertedFile)>>,
   lines |-> logIn \o convert.lines \o upload.lines \o link.lines,
   result |-> link.result]

\* const fileLink = facade.uploadFile(file)
UploadFile ==
  /\ Len(uploads) < MaxUploads
  /\ \E file \in Files, loggedIn \in CloudProviderService_isLoggedIn :
       uploads' = Append(uploads, CloudProviderFacade_uploadFile(file, loggedIn))
  /\ UNCHANGED notFacade

NextFacade == UploadFile

SpecFacade == Init /\ [][NextFacade]_vars

(***************************************************************************)
(* C18 Facade documented run.                                              *)
(***************************************************************************)
ConvertingAndUploading ==
  <<"Converting file... file.txt", "Uploading file... file.txt.converted">>

Positions(calls, method) == {k \in 1..Len(calls) : calls[k].method = method}

\* every call of method m1 comes before every call of method m2
Before(calls, m1, m2) ==
  \A k1 \in Positions(calls, m1), k2 \in Positions(calls, m2) : k1 < k2

\* one uploadFile(f) call kept the protocol
Protocol(upload) ==
  LET calls == upload.calls
      f == upload.file IN
  /\ Cardinality(Positions(calls, "isLoggedIn")) = 1
  /\ calls[1].method = "isLoggedIn"
  /\ Cardinality(Positions(calls, "logIn")) = IF upload.loggedIn THEN 0 ELSE 1
  /\ Cardinality(Positions(calls, "convertFile")) = 1
  /\ Cardinality(Positions(calls, "uploadFile")) = 1
  /\ Cardinality(Positions(calls, "getFileLink")) = 1
  /\ Len(calls) = IF upload.loggedIn THEN 4 ELSE 5
  /\ Before(calls, "logIn", "convertFile")
  /\ Before(calls, "convertFile", "uploadFile")
  /\ Before(calls, "uploadFile", "getFileLink")
  /\ \A k \in Positions(calls, "convertFile") : calls[k].arg = f
  /\ \A k \in Positions(calls, "uploadFile") : calls[k].arg = f \o ".converted"
  /\ upload.result = "https://example.com/" \o f \o ".converted"

\* C25: every CloudProviderFacade.uploadFile(f) checks isLoggedIn once,
\* calls logIn once if the check returned false and not at all otherwise,
\* and calls logIn (if at all), convertFile(f), the service's
\* uploadFile(f + ".converted") and getFileLink in that order; it returns
\* "https://example.com/" + f + ".converted" in both cases; whether a call
\* logs in depends on its own check only, not on a logIn of an earlier call.
C25_CallProtocol == \A i \in 1..Len(uploads) : Protocol(uploads[i])

\* three calls: logged in, then two calls that each log in
C25_Witness ==
  /\ Len(uploads) = 3
  /\ uploads[1].loggedIn
  /\ Positions(uploads[1].calls, "logIn") = {}
  /\ Positions(uploads[2].calls, "logIn") = {2}
  /\ Positions(uploads[3].calls, "logIn") = {2}
  /\ uploads[3].file = "a"

(***************************************************************************)
(* Composite example: SimpleText, SimpleImage, Block and the client.       *)
(* A SimpleText or SimpleImage never changes after construction and is     *)
(* kept by value in the children array it was pushed to; a Block child is  *)
(* a reference (the index in blocks).                                      *)
(***************************************************************************)
\* the Block objects and the add() calls of one client run
MaxBlocks == 2

MaxAdds == 4

SimpleTexts == {"Hello, check the following image:", "Thanks for reading!"}

SimpleImages == {"https://example.com/image.png"}

SimpleText_new(text) == [class |-> "SimpleText", text |-> text, src |-> "", block |-> 0]

SimpleImage_new(src) == [class |-> "SimpleImage", text |-> "", src |-> src, block |-> 0]

\* a reference to the b-th Block
BlockRef(b) == [class |-> "Block", text |-> "", src |-> "", block |-> b]

\* render: the result is [status, lines]
RECURSIVE render(_, _, _)

SimpleText_render(text) ==
  [status |-> "return", lines |-> <<"Rendering text:" \o " " \o text>>]

SimpleImage_render(src) ==
  [status |-> "return", lines |-> <<"Rendering image:" \o " " \o src>>]

\* the call stack is exhausted: RangeError (the lines printed on the way
\* are not kept)
StackOverflow == [status |-> "RangeError", lines |-> <<>>]

\* children.forEach((child) => child.render()): in index order, given up at
\* the first call that throws
RECURSIVE forEach(_, _, _)
forEach(bs, children, frames) ==
  IF children = <<>> THEN [status |-> "return", lines |-> <<>>]
  ELSE LET first == render(bs, Head(children), frames) IN
       IF first.status # "return" THEN first
       ELSE LET rest == forEach(bs, Tail(children), frames) IN
            IF rest.status # "return" THEN rest
            ELSE [status |-> "return", lines |-> first.lines \o rest.lines]

\* Block.render that walks the children from the last to the first
Block_render_Backwards(bs, b, frames) ==
  IF frames = 0 THEN StackOverflow ELSE forEach(bs, Reverse(bs[b]), frames - 1)

\* Block.render that gives up quietly where the nesting has no room left
Block_render_Guarded(bs, b, frames) ==
  IF frames = 0 THEN [status |-> "return", lines |-> <<>>]
  ELSE forEach(bs, bs[b], frames - 1)

\* Block.render() of block b with room for `frames` nested render calls
Block_render(bs, b, frames) ==
  IF frames = 0 THEN StackOverflow ELSE forEach(bs, bs[b], frames - 1)

render(bs, child, frames) ==
  CASE child.class = "SimpleText" -> SimpleText_render(child.text)
    [] child.class = "SimpleImage" -> SimpleImage_render(child.src)
    [] child.class = "Block" -> Block_render(bs, child.block, frames)

\* The stack has room for every structure without a cycle: nested calls of
\* Block.render deeper than the number of blocks are inside a cycle and go
\* on until the stack is exhausted.
StackFrames(bs) == Len(bs)

RECURSIVE SumLen(_)
SumLen(s) == IF s = <<>> THEN 0 ELSE Len(Head(s)) + SumLen(Tail(s))

\* new Block()
NewBlock ==
  /\ Len(blocks) < MaxBlocks
  /\ blocks' = Append(blocks, <<>>)
  /\ UNCHANGED <<lastRender, notComposite>>

\* block.add(child)
Block_add(b, child) ==
  /\ SumLen(blocks) < MaxAdds
  /\ blocks' = [blocks EXCEPT ![b] = Append(@, child)]
  /\ lastRender' = NoRender
  /\ UNCHANGED notComposite

AddText == \E b \in 1..Len(blocks), text \in SimpleTexts : Block_add(b, SimpleText_new(text))

AddImage == \E b \in 1..Len(blocks), src \in SimpleImages : Block_add(b, SimpleImage_new(src))

AddBlock == \E b \in 1..Len(blocks), c \in 1..Len(blocks) : Block_add(b, BlockRef(c))

\* root.render()
Render ==
  /\ \E root \in 1..Len(blocks) :
       LET r == Block_render(blocks, root, StackFrames(blocks)) IN
       lastRender' = [root |-> root, status |-> r.status, lines |-> r.lines]
  /\ UNCHANGED <<blocks, notComposite>>

NextComposite == NewBlock \/ AddText \/ AddImage \/ AddBlock \/ Render

SpecComposite == Init /\ [][NextComposite]_vars

CompositeTypeOK == lastRender.root \in 0..Len(blocks)

(***************************************************************************)
(* C19 Composite render order.                                             *)
(***************************************************************************)
\* the blocks among the children of b
Contains(b) ==
  {c \in 1..Len(blocks) : \E k \in 1..Len(blocks[b]) : blocks[b][k] = BlockRef(c)}

RECURSIVE Close(_, _)
Close(S, n) ==
  IF n = 0 THEN S ELSE Close(S \cup UNION {Contains(c) : c \in S}, n - 1)

\* the blocks below b: its block children, theirs, and so on
Below(b) == Close(Contains(b), Len(blocks))

\* no block at or below root is below itself
Acyclic(root) == \A b \in {root} \cup Below(root) : b \notin Below(b)

\* what the children print, one after the other, each child completely
RECURSIVE InOrder(_)
InOrder(children) ==
  IF children = <<>> THEN <<>>
  ELSE render(blocks, Head(children), StackFrames(blocks)).lines
       \o InOrder(Tail(children))

\* the number of SimpleText and SimpleImage children at or below b, each
\* counted as often as it is reached
RECURSIVE Occurrences(_)
RECURSIVE OccurrencesIn(_)
OccurrencesIn(children) ==
  IF children = <<>> THEN 0
  ELSE (IF Head(children).class = "Block" THEN Occurrences(Head(children).block) ELSE 1)
       + OccurrencesIn(Tail(children))

Occurrences(b) == OccurrencesIn(blocks[b])

NestedBlockExample ==
  <<SimpleText_new("Hello, check the following image:"),
    SimpleImage_new("https://example.com/image.png")>>

MainBlockExample(nestedBlock) ==
  <<BlockRef(nestedBlock), SimpleText_new("Thanks for reading!")>>

MainBlockOutput ==
  <<"Rendering text: Hello, check the following image:",
    "Rendering image: https://example.com/image.png",
    "Rendering text: Thanks for reading!">>

\* the last render() call did what C19 says
RenderedInOrder ==
  LET root == lastRender.root IN
  /\ lastRender.status = "return"
  /\ lastRender.lines = InOrder(blocks[root])
  /\ Len(lastRender.lines) = Occurrences(root)
  /\ blocks[root] = <<>> => lastRender.lines = <<>>
  /\ \A n \in 1..Len(blocks) :
       (blocks[root] = MainBlockExample(n) /\ blocks[n] = NestedBlockExample)
         => lastRender.lines = MainBlockOutput

\* C19 as stated: every Block.render() renders every child once per add, in
\* insertion order, a child Block completely before the next sibling; an
\* empty Block renders nothing; mainBlock = [nestedBlock[text, image], text]
\* prints the nested text, the nested image, then 'Thanks for reading!'.
C19_RenderOrder == lastRender.root # 0 => RenderedInOrder

\* C19 amended: the same, for a Block that neither contains itself nor has
\* a block below it that does.
C19_RenderOrderAcyclic ==
  (lastRender.root # 0 /\ Acyclic(lastRender.root)) => RenderedInOrder

\* the README's nested example, rendered
C19_Witness ==
  /\ Len(blocks) = 2
  /\ blocks[1] = NestedBlockExample
  /\ blocks[2] = MainBlockExample(1)
  /\ lastRender.root = 2
  /\ Acyclic(2)
  /\ Len(lastRender.lines) = 3

(***************************************************************************)
(* C30 Composite termination.                                              *)
(***************************************************************************)
\* the render() call recorded returned, with one line per SimpleText or
\* SimpleImage reached, each counted as often as it is reached
OneLinePerLeaf ==
  /\ lastRender.status = "return"
  /\ Len(lastRender.lines) = Occurrences(lastRender.root)

\* block b was added to itself or to a block below it
OnCycle(b) == b \in Below(b)

\* C30 as stated: render() on an acyclic containment returns with one line
\* per leaf occurrence; on a Block added to itself or to a descendant it
\* never terminates, so no render() call that came to an end is one on
\* such a Block.
C30_TerminatesIffAcyclic ==
  lastRender.root # 0 => (Acyclic(lastRender.root) /\ OneLinePerLeaf)

\* C30 amended: render() on an acyclic containment returns with one line
\* per leaf occurrence, also when a child was added several times or to
\* several blocks; on a containment with a Block added to itself or to a
\* descendant the nested render() calls use up the call stack and the call
\* ends with a RangeError, never by returning.
C30_ReturnsIffAcyclic ==
  lastRender.root # 0 =>
    IF Acyclic(lastRender.root) THEN OneLinePerLeaf
    ELSE lastRender.status = "RangeError"

\* block 2 was added to block 1 and block 1 to block 2; render() of block 1
\* has ended
C30_Witness ==
  /\ Len(blocks) = 2
  /\ 2 \in Contains(1)
  /\ 1 \in Contains(2)
  /\ OnCycle(1)
  /\ lastRender.root = 1
  /\ lastRender.status = "RangeError"


(***************************************************************************)
(* Adapter example: LibraryCSV, LibraryJSON, their adapters, the client.   *)
(* Here a JavaScript string is a TLA+ string; Len, \o and SubSeq act on    *)
(* its characters.  A property value is a string or undefined.             *)
(***************************************************************************)
\* the objects of one client run
MaxLibs == 4

StringValue(s) == [kind |-> "string", text |-> s]

UndefinedValue == [kind |-> "undefined", text |-> ""]

\* the i-th character of s (from 1), "" past the end
Char(s, i) == IF i <= Len(s) THEN SubSeq(s, i, i) ELSE ""

\* s.indexOf(sep) + 1 for a non-empty sep: the first position at which sep
\* starts in s, 0 when there is none
IndexOf(s, sep) ==
  LET found == {i \in 1..(Len(s) - Len(sep) + 1) : SubSeq(s, i, i + Len(sep) - 1) = sep} IN
  IF found = {} THEN 0 ELSE CHOOSE i \in found : \A j \in found : i <= j

\* s.split(sep) for a non-empty sep
RECURSIVE split(_, _)
split(s, sep) ==
  LET at == IndexOf(s, sep) IN
  IF at = 0 THEN <<s>>
  ELSE <<SubSeq(s, 1, at - 1)>> \o split(SubSeq(s, at + Len(sep), Len(s)), sep)

\* array.join(sep)
RECURSIVE join(_, _)
join(array, sep) ==
  IF array = <<>> THEN ""
  ELSE IF Len(array) = 1 THEN Head(array)
  ELSE Head(array) \o sep \o join(Tail(array), sep)

\* array.slice(1)
slice1(array) == IF array = <<>> THEN <<>> ELSE Tail(array)

\* array[i], undefined past the end
At(array, i) == IF i < Len(array) THEN StringValue(array[i + 1]) ELSE UndefinedValue

\* the array literal of both libraries
LibraryBooks ==
  << [title |-> "Book 1", author |-> "Author 1"],
     [title |-> "Book 2", author |-> "Author 2"],
     [title |-> "Book 3", author |-> "Author 3"] >>

LibraryCSV_getBooks ==
  LET books == LibraryBooks IN
  "title,author\r\n"
  \o join([i \in 1..Len(books) |-> books[i].title \o "," \o books[i].author], "\r\n")

\* JSON.stringify of a string: quoted, with '"', '\' and the line characters
\* escaped (other control characters do not occur in the texts used)
RECURSIVE Escape(_)
Escape(s) ==
  IF s = "" THEN ""
  ELSE LET c == Char(s, 1)
           e == IF c = "\"" THEN "\\\""
                ELSE IF c = "\\" THEN "\\\\"
                ELSE IF c = "\n" THEN "\\n"
                ELSE IF c = "\r" THEN "\\r"
                ELSE IF c = "\t" THEN "\\t"
                ELSE c IN
       e \o Escape(SubSeq(s, 2, Len(s)))

Quote(s) == "\"" \o Escape(s) \o "\""

\* JSON.stringify of an array of { title, author } objects: the properties
\* in the order of the object literal, no white space
JSON_stringify(books) ==
  "[" \o join([i \in 1..Len(books) |->
                 "{" \o Quote("title") \o ":" \o Quote(books[i].title)
                 \o "," \o Quote("author") \o ":" \o Quote(books[i].author) \o "}"],
              ",")
  \o "]"

LibraryJSON_getBooks ==
  LET books == LibraryBooks IN
  JSON_stringify(books)

(***************************************************************************)
(* JSON.parse, for the texts JSON.stringify makes of such arrays: an array *)
(* of objects whose property values are strings, without white space; any  *)
(* other text is a SyntaxError.  A parser's result is [ok, value, next],   *)
(* next the position after what was read.                                  *)
(***************************************************************************)
SyntaxError == [ok |-> FALSE, value |-> <<>>, next |-> 0]

Parsed(value, next) == [ok |-> TRUE, value |-> value, next |-> next]

\* the characters of a string literal from position i to its closing quote
RECURSIVE ScanString(_, _, _)
ScanString(s, i, acc) ==
  LET c == Char(s, i)
      e == Char(s, i + 1) IN
  IF c = "" \/ c \in {"\n", "\r", "\t"} THEN SyntaxError
  ELSE IF c = "\"" THEN Parsed(acc, i + 1)
  ELSE IF c = "\\"
  THEN IF e \in {"\"", "\\", "/"} THEN ScanString(s, i + 2, acc \o e)
       ELSE IF e = "n" THEN ScanString(s, i + 2, acc \o "\n")
       ELSE IF e = "r" THEN ScanString(s, i + 2, acc \o "\r")
       ELSE IF e = "t" THEN ScanString(s, i + 2, acc \o "\t")
       ELSE SyntaxError
  ELSE ScanString(s, i + 1, acc \o c)

ParseString(s, i) ==
  IF Char(s, i) = "\"" THEN ScanString(s, i + 1, "") ELSE SyntaxError

\* the object with the properties read: of two with one name the later
MakeObject(members) ==
  [k \in {members[j][1] : j \in 1..Len(members)} |->
     LET last == CHOOSE j \in 1..Len(members) :
                   /\ members[j][1] = k
                   /\ \A l \in (j + 1)..Len(members) : members[l][1] # k IN
     StringValue(members[last][2])]

\* "name":"value" pairs up to the closing brace
RECURSIVE ParseMembers(_, _, _)
ParseMembers(s, i, acc) ==
  LET key == ParseString(s, i) IN
  IF ~key.ok \/ Char(s, key.next) # ":" THEN SyntaxError
  ELSE LET val == ParseString(s, key.next + 1) IN
       IF ~val.ok THEN SyntaxError
       ELSE LET members == Append(acc, <<key.value, val.value>>) IN
            IF Char(s, val.next) = "," THEN ParseMembers(s, val.next + 1, members)
            ELSE IF Char(s, val.next) = "}" THEN Parsed(MakeObject(members), val.next + 1)
            ELSE SyntaxError

ParseObject(s, i) ==
  IF Char(s, i) # "{" THEN SyntaxError
  ELSE IF Char(s, i + 1) = "}" THEN Parsed(MakeObject(<<>>), i + 2)
  ELSE ParseMembers(s, i + 1, <<>>)

\* objects up to the closing bracket
RECURSIVE ParseElements(_, _, _)
ParseElements(s, i, acc) ==
  LET element == ParseObject(s, i) IN
  IF ~element.ok THEN SyntaxError
  ELSE LET elements == Append(acc, element.value) IN
       IF Char(s, element.next) = "," THEN ParseElements(s, element.next + 1, elements)
       ELSE IF Char(s, element.next) = "]" THEN Parsed(elements, element.next + 1)
       ELSE SyntaxError

ParseArray(s, i) ==
  IF Char(s, i) # "[" THEN SyntaxError
  ELSE IF Char(s, i + 1) = "]" THEN Parsed(<<>>, i + 2)
  ELSE ParseElements(s, i + 1, <<>>)

\* JSON.parse(text): the result is [status, books]
JSON_parse(text) ==
  LET array == ParseArray(text, 1) IN
  IF array.ok /\ array.next = Len(text) + 1
  THEN [status |-> "return", books |-> array.value]
  ELSE [status |-> "SyntaxError", books |-> <<>>]

LibraryClasses == {"LibraryCSV", "LibraryJSON"}

AdapterClasses == {"LibraryCSVAdapter", "LibraryJSONAdapter"}

\* new LibraryCSV(), new LibraryJSON()
Library_new(class) == [class |-> class, library |-> 0]

\* new LibraryCSVAdapter(library), new LibraryJSONAdapter(library)
LibraryAdapter_new(class, library) == [class |-> class, library |-> library]

\* this.library.getBooks()
Library_getBooks(ls, l) ==
  IF ls[l].class = "LibraryCSV" THEN LibraryCSV_getBooks ELSE LibraryJSON_getBooks

\* LibraryCSVAdapter.getBooks without the slice(1)
LibraryCSVAdapter_getBooks_WithHeader(ls, o) ==
  LET books == Library_getBooks(ls, ls[o].library)
      booksArray == split(books, "\r\n")
      booksData == booksArray IN
  [status |-> "return",
   books |-> [i \in 1..Len(booksData) |->
                LET bookData == split(booksData[i], ",") IN
                [title |-> At(bookData, 0), author |-> At(bookData, 1)]]]

LibraryCSVAdapter_getBooks(ls, o) ==
  LET books == Library_getBooks(ls, ls[o].library)
      booksArray == split(books, "\r\n")
      booksData == slice1(booksArray) IN
  [status |-> "return",
   books |-> [i \in 1..Len(booksData) |->
                LET bookData == split(booksData[i], ",") IN
                [title |-> At(bookData, 0), author |-> At(bookData, 1)]]]

LibraryJSONAdapter_getBooks(ls, o) ==
  LET books == Library_getBooks(ls, ls[o].library) IN
  JSON_parse(books)

\* adapter.getBooks(), by the adapter's class
getBooks(ls, o) ==
  IF ls[o].class = "LibraryCSVAdapter" THEN LibraryCSVAdapter_getBooks(ls, o)
  ELSE LibraryJSONAdapter_getBooks(ls, o)

NewLibrary ==
  /\ Len(libs) < MaxLibs
  /\ \E class \in LibraryClasses : libs' = Append(libs, Library_new(class))
  /\ UNCHANGED <<lastBooks, notAdapter>>

\* The two library classes have the same members, so the compiler accepts
\* either as the argument of either adapter's constructor.
NewAdapter ==
  /\ Len(libs) < MaxLibs
  /\ \E class \in AdapterClasses, library \in 1..Len(libs) :
       /\ libs[library].class \in LibraryClasses
       /\ libs' = Append(libs, LibraryAdapter_new(class, library))
  /\ UNCHANGED <<lastBooks, notAdapter>>

\* libraryAdapter.getBooks()
GetBooks ==
  /\ \E o \in 1..Len(libs) :
       /\ libs[o].class \in AdapterClasses
       /\ LET r == getBooks(libs, o) IN
          lastBooks' = [target |-> o, status |-> r.status, books |-> r.books]
  /\ UNCHANGED <<libs, notAdapter>>

NextAdapter == NewLibrary \/ NewAdapter \/ GetBooks

SpecAdapter == Init /\ [][NextAdapter]_vars

(***************************************************************************)
(* C20 Adapter equivalence.                                                *)
(***************************************************************************)
\* o is an adapter of the given class around the library made for it
AdapterOf(o, class, library) ==
  /\ libs[o].class = class
  /\ libs[libs[o].library].class = library

ThreeBooks ==
  << [title |-> StringValue("Book 1"), author |-> StringValue("Author 1")],
     [title |-> StringValue("Book 2"), author |-> StringValue("Author 2")],
     [title |-> StringValue("Book 3"), author |-> StringValue("Author 3")] >>

\* C20: getBooks() of a LibraryCSVAdapter (around a LibraryCSV) and of a
\* LibraryJSONAdapter (around a LibraryJSON) return the same list: the three
\* records {title: 'Book i', author: 'Author i'}, i = 1, 2, 3, in that order,
\* without the CSV header line and with no record more or less.
C20_AdapterEquivalence ==
  /\ \A a, b \in 1..Len(libs) :
       ( /\ AdapterOf(a, "LibraryCSVAdapter", "LibraryCSV")
         /\ AdapterOf(b, "LibraryJSONAdapter", "LibraryJSON") )
         => getBooks(libs, a) = getBooks(libs, b)
  /\ ( /\ lastBooks.target # 0
       /\ \/ AdapterOf(lastBooks.target, "LibraryCSVAdapter", "LibraryCSV")
          \/ AdapterOf(lastBooks.target, "LibraryJSONAdapter", "LibraryJSON") )
       => /\ lastBooks.status = "return"
          /\ Len(lastBooks.books) = 3
          /\ lastBooks.books = ThreeBooks

\* both adapters constructed as in the client code, the CSV one just called
C20_Witness ==
  /\ \E b \in 1..Len(libs) : AdapterOf(b, "LibraryJSONAdapter", "LibraryJSON")
  /\ lastBooks.target # 0
  /\ AdapterOf(lastBooks.target, "LibraryCSVAdapter", "LibraryCSV")
  /\ lastBooks.books = ThreeBooks

(***************************************************************************)
(* Builder example: Car, Motorcycle, CarBuilder, MotorcycleBuilder,        *)
(* Director and the client.  A method called on a product or a builder     *)
(* gives [status, error, products, returned]: products the product objects *)
(* after the call, returned the object handed back (0 when none).          *)
(***************************************************************************)
\* the builders constructed in one client run, the Director's included
MaxBuilders == 2

Seats == {1, 2, 3}

Engines == {"V-12", "V-4"}

NumberValue(n) == [kind |-> "number", n |-> n]

UndefinedNumber == [kind |-> "undefined", n |-> 0]

\* new Car(), new Motorcycle(): no constructor, both fields unassigned
Product_new(class) ==
  [class |-> class, seats |-> UndefinedNumber, engine |-> UndefinedValue]

Car_setSeats(ps, p, seats) ==
  [status |-> "return", error |-> "none",
   products |-> [ps EXCEPT ![p].seats = NumberValue(seats)], returned |-> 0]

\* Motorcycle.setSeats without the check
Motorcycle_setSeats_NoLimit(ps, p, seats) ==
  [status |-> "return", error |-> "none",
   products |-> [ps EXCEPT ![p].seats = NumberValue(seats)], returned |-> 0]

Motorcycle_setSeats(ps, p, seats) ==
  IF seats > 2
  THEN [status |-> "throw", error |-> "Motorcycle can not have more than 2 seats",
        products |-> ps, returned |-> 0]
  ELSE [status |-> "return", error |-> "none",
        products |-> [ps EXCEPT ![p].seats = NumberValue(seats)], returned |-> 0]

\* Car.setEngine and Motorcycle.setEngine, the same statement
Product_setEngine(ps, p, engine) ==
  [status |-> "return", error |-> "none",
   products |-> [ps EXCEPT ![p].engine = StringValue(engine)], returned |-> 0]

\* this.car.setSeats(seats), this.motorcycle.setSeats(seats)
Product_setSeats(ps, p, seats) ==
  IF ps[p].class = "Motorcycle" THEN Motorcycle_setSeats(ps, p, seats)
  ELSE Car_setSeats(ps, p, seats)

\* the product class a builder class constructs
ProductOf(class) == IF class = "CarBuilder" THEN "Car" ELSE "Motorcycle"

BuilderClasses == {"CarBuilder", "MotorcycleBuilder"}

\* new CarBuilder(), new MotorcycleBuilder(), the product being object p;
\* held: the client keeps a reference to the builder
Builder_new(class, p, held) == [class |-> class, product |-> p, held |-> held]

\* CarBuilder.setSeats / MotorcycleBuilder.setSeats: returns this
Builder_setSeats(bs, ps, b, seats) ==
  LET set == Product_setSeats(ps, bs[b].product, seats) IN
  IF set.status = "throw" THEN set ELSE [set EXCEPT !.returned = b]

\* setEngine that answers with a builder other than this
Builder_setEngine_ReturnsOther(bs, ps, b, engine) ==
  LET set == Product_setEngine(ps, bs[b].product, engine) IN
  IF set.status = "throw" THEN set ELSE [set EXCEPT !.returned = 1]

\* CarBuilder.setEngine / MotorcycleBuilder.setEngine: returns this
Builder_setEngine(bs, ps, b, engine) ==
  LET set == Product_setEngine(ps, bs[b].product, engine) IN
  IF set.status = "throw" THEN set ELSE [set EXCEPT !.returned = b]

\* getResult that hands out a copy of the product
Builder_getResult_Copy(bs, ps, b) ==
  [status |-> "return", error |-> "none",
   products |-> Append(ps, ps[bs[b].product]), returned |-> Len(ps) + 1]

\* CarBuilder.getResult / MotorcycleBuilder.getResult
Builder_getResult(bs, ps, b) ==
  [status |-> "return", error |-> "none", products |-> ps,
   returned |-> bs[b].product]

\* the Director's four methods: builder class and the arguments of the chain
Director ==
  [buildFerrari |-> [builder |-> "CarBuilder", seats |-> 2, engine |-> "V-12"],
   buildToyota |-> [builder |-> "CarBuilder", seats |-> 7, engine |-> "V-6"],
   buildHonda |-> [builder |-> "MotorcycleBuilder", seats |-> 2, engine |-> "V-4"],
   buildYamaha |-> [builder |-> "MotorcycleBuilder", seats |-> 1, engine |-> "V-2"]]

\* a Director whose every method asks for the Toyota's seven seats
Director_build_ToyotaSeats(bs, ps, recipe) ==
  LET p == Len(ps) + 1
      b == Len(bs) + 1
      bs1 == Append(bs, Builder_new(recipe.builder, p, FALSE))
      ps1 == Append(ps, Product_new(ProductOf(recipe.builder)))
      seats == Builder_setSeats(bs1, ps1, b, 7) IN
  IF seats.status = "throw"
  THEN [status |-> "throw", error |-> seats.error, builders |-> bs1,
        products |-> seats.products, returned |-> 0]
  ELSE LET engine == Builder_setEngine(bs1, seats.products, seats.returned, recipe.engine)
           result == Builder_getResult(bs1, engine.products, engine.returned) IN
       [status |-> "return", error |-> "none", builders |-> bs1,
        products |-> result.products, returned |-> result.returned]

\* new XBuilder().setSeats(s).setEngine(e).getResult(): each call is made on
\* what the call before it returned; a throw ends the chain
Director_build(bs, ps, recipe) ==
  LET p == Len(ps) + 1
      b == Len(bs) + 1
      bs1 == Append(bs, Builder_new(recipe.builder, p, FALSE))
      ps1 == Append(ps, Product_new(ProductOf(recipe.builder)))
      seats == Builder_setSeats(bs1, ps1, b, recipe.seats) IN
  IF seats.status = "throw"
  THEN [status |-> "throw", error |-> seats.error, builders |-> bs1,
        products |-> seats.products, returned |-> 0]
  ELSE LET engine == Builder_setEngine(bs1, seats.products, seats.returned, recipe.engine)
           result == Builder_getResult(bs1, engine.products, engine.returned) IN
       [status |-> "return", error |-> "none", builders |-> bs1,
        products |-> result.products, returned |-> result.returned]

BuilderCall(b, method, seats, engine, r) ==
  [builder |-> b, method |-> method, seats |-> seats, engine |-> engine,
   status |-> r.status, error |-> r.error, returned |-> r.returned]

\* const builder = new CarBuilder() / new MotorcycleBuilder()
NewBuilder ==
  /\ Len(builders) < MaxBuilders
  /\ \E class \in BuilderClasses :
       /\ builders' = Append(builders, Builder_new(class, Len(products) + 1, TRUE))
       /\ products' = Append(products, Product_new(ProductOf(class)))
  /\ lastCall' = NoBuilderCall
  /\ UNCHANGED notBuilder

\* builder.setSeats(seats)
SetSeats ==
  /\ \E b \in 1..Len(builders), seats \in Seats :
       /\ builders[b].held
       /\ LET r == Builder_setSeats(builders, products, b, seats) IN
          /\ products' = r.products
          /\ lastCall' = BuilderCall(b, "setSeats", seats, "", r)
  /\ UNCHANGED <<builders, notBuilder>>

\* builder.setEngine(engine)
SetEngine ==
  /\ \E b \in 1..Len(builders), engine \in Engines :
       /\ builders[b].held
       /\ LET r == Builder_setEngine(builders, products, b, engine) IN
          /\ products' = r.products
          /\ lastCall' = BuilderCall(b, "setEngine", 0, engine, r)
  /\ UNCHANGED <<builders, notBuilder>>

\* builder.getResult()
GetResult ==
  /\ \E b \in 1..Len(builders) :
       /\ builders[b].held
       /\ LET r == Builder_getResult(builders, products, b) IN
          /\ products' = r.products
          /\ lastCall' = BuilderCall(b, "getResult", 0, "", r)
  /\ UNCHANGED <<builders, notBuilder>>

\* director.buildFerrari(), buildToyota(), buildHonda(), buildYamaha()
Build ==
  /\ Len(builders) < MaxBuilders
  /\ \E method \in DOMAIN Director :
       LET r == Director_build(builders, products, Director[method]) IN
       /\ builders' = r.builders
       /\ products' = r.products
       /\ lastCall' = BuilderCall(0, method, 0, "", r)
  /\ UNCHANGED notBuilder

NextBuilder == NewBuilder \/ SetSeats \/ SetEngine \/ GetResult \/ Build

SpecBuilder == Init /\ [][NextBuilder]_vars

\* ---------------------------------------------------------------------
\* Builder example: claims
\* ---------------------------------------------------------------------

\* the builders the client holds a reference to
Held == {b \in 1..Len(builders) : builders[b].held}

\* the last call was a setter that returned
SetterReturned ==
  lastCall.method \in {"setSeats", "setEngine"} /\ lastCall.status = "return"

\* new XBuilder().setSeats(s).setEngine(e).getResult() from the present heap
Chain(class, s, e) ==
  Director_build(builders, products, [builder |-> class, seats |-> s, engine |-> e])

\* b.setSeats(s) is accepted in the present heap
Accepted(b, s) == Builder_setSeats(builders, products, b, s).status = "return"

\* products after b.setSeats(s) followed by b.setEngine(e), and the reverse
SeatsThenEngine(b, s, e) ==
  LET first == Builder_setSeats(builders, products, b, s) IN
  Builder_setEngine(builders, first.products, first.returned, e).products

EngineThenSeats(b, s, e) ==
  LET first == Builder_setEngine(builders, products, b, e) IN
  Builder_setSeats(builders, first.products, first.returned, s).products

\* C21: for every accepted seat count s and engine e the chain
\* new XBuilder().setSeats(s).setEngine(e).getResult() returns a product of
\* the builder's class with seats s and engine e; a setter that returns,
\* returns the builder it was called on and leaves its argument in the
\* product, whatever was set before; setSeats and setEngine commute.
C21_BuilderResult ==
  /\ \A class \in BuilderClasses, s \in Seats, e \in Engines :
       LET r == Chain(class, s, e) IN
       r.status = "return" =>
         r.products[r.returned] =
           [class |-> ProductOf(class), seats |-> NumberValue(s),
            engine |-> StringValue(e)]
  /\ SetterReturned =>
       /\ lastCall.returned = lastCall.builder
       /\ lastCall.method = "setSeats" =>
            products[builders[lastCall.builder].product].seats
              = NumberValue(lastCall.seats)
       /\ lastCall.method = "setEngine" =>
            products[builders[lastCall.builder].product].engine
              = StringValue(lastCall.engine)
  /\ \A b \in Held, s \in Seats, e \in Engines :
       Accepted(b, s) => SeatsThenEngine(b, s, e) = EngineThenSeats(b, s, e)

\* the second builder of the client, its seats already set, gets engine V-4
\* while the first builder's product has engine V-12
C21_Witness ==
  /\ lastCall.method = "setEngine"
  /\ lastCall.builder = 2
  /\ lastCall.engine = "V-4"
  /\ products[builders[2].product].seats.kind = "number"
  /\ \E b \in Held : products[builders[b].product].engine = StringValue("V-12")

\* the product the spec names for each Director method
Recipes ==
  [buildFerrari |-> [class |-> "Car", seats |-> NumberValue(2), engine |-> StringValue("V-12")],
   buildToyota |-> [class |-> "Car", seats |-> NumberValue(7), engine |-> StringValue("V-6")],
   buildHonda |-> [class |-> "Motorcycle", seats |-> NumberValue(2), engine |-> StringValue("V-4")],
   buildYamaha |-> [class |-> "Motorcycle", seats |-> NumberValue(1), engine |-> StringValue("V-2")]]

\* this step is a call of a Director method
BuildStep ==
  lastCall'.method \in DOMAIN Director /\ Len(builders') = Len(builders) + 1

\* the products no builder of the client refers to
Released == {p \in 1..Len(products) : \A b \in Held : builders[b].product # p}

C22_Step ==
  /\ BuildStep =>
       /\ lastCall'.status = "return"
       /\ lastCall'.returned = Len(products) + 1
       /\ products'[lastCall'.returned] = Recipes[lastCall'.method]
       /\ SubSeq(products', 1, Len(products)) = products
  /\ \A p \in Released : products'[p] = products[p]

\* C22: buildFerrari returns a Car with 2 seats and engine V-12, buildToyota
\* a Car with 7 seats and V-6, buildHonda a Motorcycle with 2 seats and V-4,
\* buildYamaha a Motorcycle with 1 seat and V-2; none of the four throws;
\* the product returned is a new object, the products that existed before
\* are left as they were, and no later call changes a product the Director
\* returned.
C22_DirectorRecipes == [][C22_Step]_vars

\* buildYamaha is called after buildToyota has returned its Car
C22_Witness ==
  /\ lastCall.method = "buildYamaha"
  /\ lastCall.returned = 2
  /\ products[1] = Recipes.buildToyota

\* a Motorcycle's seats field is unassigned or at most 2
SeatLimit ==
  \A p \in 1..Len(products) :
    products[p].class = "Motorcycle" =>
      products[p].seats.kind = "undefined" \/ products[p].seats.n <= 2

\* setSeats throws exactly on a Motorcycle asked for more than 2 seats, and
\* then with the message of Motorcycle.setSeats
ThrowsIffOverLimit ==
  lastCall.method = "setSeats" =>
    /\ lastCall.status = "throw" <=>
         (builders[lastCall.builder].class = "MotorcycleBuilder" /\ lastCall.seats > 2)
    /\ lastCall.status = "throw" =>
         lastCall.error = "Motorcycle can not have more than 2 seats"

\* a setSeats that throws leaves every product as it was
C26_Step ==
  (lastCall'.method = "setSeats" /\ lastCall'.status = "throw") =>
    products' = products

\* C26: Motorcycle.setSeats(s) fails with 'Motorcycle can not have more
\* than 2 seats' exactly when s > 2, and then seats and engine stay as they
\* were; the seats of a Motorcycle are always unset or at most 2;
\* Car.setSeats accepts every seat count.
C26_SeatLimit == [](SeatLimit /\ ThrowsIffOverLimit) /\ [][C26_Step]_vars

\* a MotorcycleBuilder whose product has 2 seats and an engine is asked for
\* 3 seats
C26_Witness ==
  /\ lastCall.method = "setSeats"
  /\ lastCall.status = "throw"
  /\ lastCall.seats = 3
  /\ products[builders[lastCall.builder].product].seats = NumberValue(2)
  /\ products[builders[lastCall.builder].product].engine.kind = "string"

\* the call recorded after this step is a call on builder b of the client
CallOn(b) ==
  /\ lastCall' # lastCall \/ products' # products
  /\ lastCall'.builder = b
  /\ Len(builders') = Len(builders)

C29_Step ==
  /\ SubSeq(builders', 1, Len(builders)) = builders
  /\ \A b \in Held :
       /\ (CallOn(b) /\ lastCall'.method = "getResult") =>
            /\ lastCall'.returned = builders[b].product
            /\ products' = products
       /\ (CallOn(b) /\ lastCall.builder = b /\ lastCall.method = "getResult"
             /\ lastCall'.method = "setEngine") =>
            products'[lastCall.returned].engine = StringValue(lastCall'.engine)
       /\ (CallOn(b) /\ lastCall.builder = b /\ lastCall.method = "getResult"
             /\ lastCall'.method = "setSeats" /\ lastCall'.status = "return") =>
            products'[lastCall.returned].seats = NumberValue(lastCall'.seats)
       /\ CallOn(b) =>
            \A p \in 1..Len(products) :
              p # builders[b].product => products'[p] = products[p]

\* no two builders share a product
OwnProduct ==
  \A b1, b2 \in 1..Len(builders) :
    builders[b1].product = builders[b2].product => b1 = b2

\* C29: a builder owns the one product its constructor created; getResult
\* returns that same product at every call and changes nothing; a setter
\* called after getResult changes the product already returned; a call on
\* one builder leaves the products of the other builders as they were.
C29_Aliasing == []OwnProduct /\ [][C29_Step]_vars

\* getResult on the second builder, whose product has seats and an engine,
\* while the first builder's product has other seats
C29_Witness ==
  /\ lastCall.method = "getResult"
  /\ lastCall.builder = 2
  /\ lastCall.returned = builders[2].product
  /\ products[lastCall.returned].seats.kind = "number"
  /\ products[lastCall.returned].engine.kind = "string"
  /\ products[builders[1].product].seats.kind = "number"
  /\ products[builders[1].product].seats # products[lastCall.returned].seats

\* ---------------------------------------------------------------------
\* Abstract factory example (creational-patterns/abstract-factory)
\*
\* shop is the heap of the example: the factories, and the orders and
\* payments they created. An object is [class, factory, id]: factory is the
\* index of the factory whose method constructed it (0 for a factory), id
\* the order's id (0 for the objects that have none). addProduct,
\* addShippingAddress and addCreditCardNumber only write a console line
\* and touch no field; they are left out.
\* ---------------------------------------------------------------------

MaxShop == 4

OrderIds == {1, 2}

RECURSIVE NumberToString(_)
\* `${order.id}` for a non-negative integer
NumberToString(n) ==
  IF n < 10 THEN SubSeq("0123456789", n + 1, n + 1)
  ELSE NumberToString(n \div 10) \o NumberToString(n % 10)

\* OnlineCommerceFactory.createOrder / PhysicalCommerceFactory.createOrder,
\* called on factory f
CommerceFactory_createOrder(sh, f, id) ==
  [class |-> IF sh[f].class = "OnlineCommerceFactory" THEN "OnlineOrder"
             ELSE "PhysicalOrder",
   factory |-> f, id |-> id]

\* a createPayment that answers with an OnlinePayment in both factories
CommerceFactory_createPayment_Online(sh, f) ==
  [class |-> "OnlinePayment", factory |-> f, id |-> 0]

\* OnlineCommerceFactory.createPayment / PhysicalCommerceFactory.createPayment
CommerceFactory_createPayment(sh, f) ==
  [class |-> IF sh[f].class = "OnlineCommerceFactory" THEN "OnlinePayment"
             ELSE "PhysicalPayment",
   factory |-> f, id |-> 0]

\* OnlinePayment.completePayment / PhysicalPayment.completePayment: the
\* parameter is read for its id only, whatever class the order has
Payment_completePayment(sh, p, o) ==
  [payment |-> p, order |-> o, status |-> "return", returned |-> TRUE,
   line |-> IF sh[p].class = "OnlinePayment"
            THEN "Payment completed for the online order "
                   \o NumberToString(sh[o].id)
            ELSE "Physical payment completed for the physical order "
                   \o NumberToString(sh[o].id)]

\* new OnlineCommerceFactory() / new PhysicalCommerceFactory()
NewFactory ==
  /\ Len(shop) < MaxShop
  /\ \E class \in {"OnlineCommerceFactory", "PhysicalCommerceFactory"} :
       shop' = Append(shop, [class |-> class, factory |-> 0, id |-> 0])
  /\ UNCHANGED <<lastPayment, notFactory>>

\* factory.createOrder(id)
CreateOrder ==
  /\ Len(shop) < MaxShop
  /\ \E f \in 1..Len(shop), id \in OrderIds :
       /\ shop[f].factory = 0
       /\ shop' = Append(shop, CommerceFactory_createOrder(shop, f, id))
  /\ UNCHANGED <<lastPayment, notFactory>>

\* factory.createPayment()
CreatePayment ==
  /\ Len(shop) < MaxShop
  /\ \E f \in 1..Len(shop) :
       /\ shop[f].factory = 0
       /\ shop' = Append(shop, CommerceFactory_createPayment(shop, f))
  /\ UNCHANGED <<lastPayment, notFactory>>

\* payment.completePayment(order): the client's variables have the
\* interface types Payment and Order, so any order may be handed over
CompletePayment ==
  /\ \E p \in 1..Len(shop), o \in 1..Len(shop) :
       /\ shop[p].class \in {"OnlinePayment", "PhysicalPayment"}
       /\ shop[o].class \in {"OnlineOrder", "PhysicalOrder"}
       /\ lastPayment' = Payment_completePayment(shop, p, o)
  /\ UNCHANGED <<shop, notFactory>>

NextFactory == NewFactory \/ CreateOrder \/ CreatePayment \/ CompletePayment

SpecFactory == Init /\ [][NextFactory]_vars

\* ---------------------------------------------------------------------
\* Abstract factory example: claims
\* ---------------------------------------------------------------------

\* the family a class belongs to
Family(class) ==
  IF class \in {"OnlineCommerceFactory", "OnlineOrder", "OnlinePayment"}
  THEN "online" ELSE "physical"

Factories == {f \in 1..Len(shop) : shop[f].factory = 0}

\* C23: whatever createOrder and createPayment calls were made, every order
\* and payment belongs to the family of the factory that created it;
\* createOrder(id) yields an order of that family whose id is id,
\* createPayment() a payment of that family; completePayment on an order of
\* the payment's family returns true.
C23_FamilyConsistency ==
  /\ \A x \in 1..Len(shop) :
       x \notin Factories =>
         /\ shop[x].factory \in Factories
         /\ Family(shop[x].class) = Family(shop[shop[x].factory].class)
  /\ \A f \in Factories, id \in OrderIds :
       LET order == CommerceFactory_createOrder(shop, f, id)
           payment == CommerceFactory_createPayment(shop, f) IN
       /\ order.id = id
       /\ order.class \in {"OnlineOrder", "PhysicalOrder"}
       /\ payment.class \in {"OnlinePayment", "PhysicalPayment"}
       /\ Family(order.class) = Family(shop[f].class)
       /\ Family(payment.class) = Family(shop[f].class)
  /\ (lastPayment.status = "return"
        /\ Family(shop[lastPayment.payment].class)
             = Family(shop[lastPayment.order].class)) =>
       lastPayment.returned = TRUE

\* the physical factory's payment completed for its order 2, as the client does
C23_Witness ==
  /\ lastPayment.status = "return"
  /\ shop[lastPayment.payment].class = "PhysicalPayment"
  /\ shop[lastPayment.order].class = "PhysicalOrder"
  /\ shop[lastPayment.order].id = 2
  /\ shop[lastPayment.payment].factory = shop[lastPayment.order].factory
  /\ lastPayment.line = "Physical payment completed for the physical order 2"

\* ---------------------------------------------------------------------
\* Bridge example (structural-paterns/bridge)
\*
\* uis is the heap of the example: Backend objects ([class, backend |-> 0])
\* and UI objects, whose backend field is the index of the Backend handed
\* to the constructor. The repository holds the example twice: bridge.ts,
\* whose render() writes one console line, and a copy whose render()
\* writes two. lastShow.source names the text the call was run from,
\* lastShow.getData lists the backends getData() was called on.
\* ---------------------------------------------------------------------

MaxUIs == 3

\* UI constructor, reached through new WebUI / AndroidUI / IPhoneUI
UI_new(class, backend) == [class |-> class, backend |-> backend]

\* WebBackend.getData / MobileBackend.getData
Backend_getData(us, b) == us[b].class \o ": Data from the backend"

\* render() that asks the first backend constructed, not the one injected
UI_render_FirstBackend(us, u) ==
  [ui |-> u, source |-> "bridge.ts", getData |-> <<1>>,
   lines |-> <<us[u].class \o ": Rendering data from the backend -> "
                 \o Backend_getData(us, 1)>>]

\* WebUI.render / AndroidUI.render / IPhoneUI.render of bridge.ts:
\* console.log with two arguments writes them with a space between
UI_render(us, u) ==
  LET data == Backend_getData(us, us[u].backend) IN
  [ui |-> u, source |-> "bridge.ts", getData |-> <<us[u].backend>>,
   lines |-> <<us[u].class \o ": Rendering data from the backend ->"
                 \o " " \o data>>]

\* the same three methods in the copy: a line, then the data on its own line
UI_render_TwoLines(us, u) ==
  LET data == Backend_getData(us, us[u].backend) IN
  [ui |-> u, source |-> "copy", getData |-> <<us[u].backend>>,
   lines |-> <<us[u].class \o ": Rendering data from the backend", data>>]

\* new WebBackend() / new MobileBackend()
NewBackend ==
  /\ Len(uis) < MaxUIs
  /\ \E class \in {"WebBackend", "MobileBackend"} :
       uis' = Append(uis, [class |-> class, backend |-> 0])
  /\ UNCHANGED <<lastShow, notBridge>>

\* new WebUI(backend) / new AndroidUI(backend) / new IPhoneUI(backend)
NewUI ==
  /\ Len(uis) < MaxUIs
  /\ \E class \in {"WebUI", "AndroidUI", "IPhoneUI"}, b \in 1..Len(uis) :
       /\ uis[b].backend = 0
       /\ uis' = Append(uis, UI_new(class, b))
  /\ UNCHANGED <<lastShow, notBridge>>

\* ui.render(), in either text of the example
RenderUI ==
  /\ \E u \in 1..Len(uis) :
       /\ uis[u].backend # 0
       /\ \/ lastShow' = UI_render(uis, u)
          \/ lastShow' = UI_render_TwoLines(uis, u)
  /\ UNCHANGED <<uis, notBridge>>

NextBridge == NewBackend \/ NewUI \/ RenderUI

SpecBridge == Init /\ [][NextBridge]_vars

\* ---------------------------------------------------------------------
\* Bridge example: claims
\* ---------------------------------------------------------------------

BackendsOf(us) == {b \in 1..Len(us) : us[b].backend = 0}

\* what the spec says a render() of UI class ui over backend class backend
\* writes: the UI's name, then the backend's data
Emitted(ui, backend) ==
  ui \o ": Rendering data from the backend -> " \o backend
     \o ": Data from the backend"

RECURSIVE JoinLines(_)
\* the lines written, as one text, ' -> ' standing for a line break
JoinLines(lines) ==
  IF lines = <<>> THEN ""
  ELSE IF Len(lines) = 1 THEN lines[1]
  ELSE lines[1] \o " -> " \o JoinLines(Tail(lines))

\* the last render() asked the injected backend once and wrote its data
\* after the UI's name
ShowOK ==
  lastShow.ui # 0 =>
    /\ lastShow.getData = <<uis[lastShow.ui].backend>>
    /\ JoinLines(lastShow.lines)
         = Emitted(uis[lastShow.ui].class, uis[uis[lastShow.ui].backend].class)
    /\ lastShow.source = "bridge.ts" => Len(lastShow.lines) = 1

\* every UI class takes every backend constructed
Constructible ==
  \A class \in {"WebUI", "AndroidUI", "IPhoneUI"}, b \in BackendsOf(uis) :
    /\ UI_new(class, b).backend = b
    /\ UI_render(Append(uis, UI_new(class, b)), Len(uis) + 1).lines
         = <<Emitted(class, uis[b].class)>>

\* no object of the heap changes once constructed
C24_Step == SubSeq(uis', 1, Len(uis)) = uis

====
